---- MODULE Spec2Model ----
(***************************************************************************)
(* Reconciliation engine of io-xl-web: key normalisation, value matching,  *)
(* the four-principle dataset matcher, the review-compensation merger and  *)
(* the write-back (commit) engine.                                         *)
(*                                                                         *)
(* Strings are sequences of units.  A unit is one character ("0", "-", " ")*)
(* or one Hangul word of the source written in Latin capitals:             *)
(*   "GIJUN" = 기준, "BIGYO" = 비교, "GEOMTO" = 검토, "BIGO" = 비고,       *)
(*   "CHUGA" = 추가, "SAKJE" = 삭제, "TONGHAP" = 통합, "KI" = 키,          *)
(*   "GUBUN" = 구분, "UIGYEON" = 의견, "HWAGINSAHANG" = 확인사항,          *)
(*   "HANGMOK" = 항목, "IRYEOK" = 이력.                                    *)
(* So '_기준검토' is <<"_","GIJUN","GEOMTO">>.  The boolean true stored in *)
(* a row (C_diff, skMatch) is the string <<"true">>, as String(true).      *)
(***************************************************************************)
EXTENDS Integers, Sequences, FiniteSets, TLC

\* ------------------------------------------------------------------ strings
Undefined == <<"<undefined>">>

Str(v) == IF v = Undefined THEN <<>> ELSE v

Truthy(v) == v # Undefined /\ v # <<>>

IsWs(c) == c \in {" ", "\t", "\n", "\r"}

RECURSIVE TrimLeft(_)
TrimLeft(s) == IF s # <<>> /\ IsWs(Head(s)) THEN TrimLeft(Tail(s)) ELSE s

RECURSIVE TrimRight(_)
TrimRight(s) == IF s # <<>> /\ IsWs(s[Len(s)]) THEN TrimRight(SubSeq(s, 1, Len(s) - 1)) ELSE s

Trim(s) == TrimRight(TrimLeft(s))

LettersU == <<"A","B","C","D","E","F","G","H","I","J","K","L","M","N","O","P","Q","R","S","T","U","V","W","X","Y","Z">>

LettersL == <<"a","b","c","d","e","f","g","h","i","j","k","l","m","n","o","p","q","r","s","t","u","v","w","x","y","z">>

Digits == <<"0","1","2","3","4","5","6","7","8","9">>

Hangul == {"GIJUN", "BIGYO", "GEOMTO", "BIGO", "CHUGA", "SAKJE", "TONGHAP", "KI", "GUBUN", "UIGYEON",
           "HWAGINSAHANG", "HANGMOK", "IRYEOK"}

InSeq(c, q) == \E i \in 1..Len(q) : q[i] = c

PosIn(c, q) == CHOOSE i \in 1..Len(q) : q[i] = c

Lower(c) == IF InSeq(c, LettersU) THEN LettersL[PosIn(c, LettersU)] ELSE c

Upper(c) == IF InSeq(c, LettersL) THEN LettersU[PosIn(c, LettersL)] ELSE c

toLowerCase(s) == [i \in 1..Len(s) |-> Lower(s[i])]

toUpperCase(s) == [i \in 1..Len(s) |-> Upper(s[i])]

StartsWith(s, p) == Len(p) <= Len(s) /\ SubSeq(s, 1, Len(p)) = p

EndsWith(s, p) == Len(p) <= Len(s) /\ SubSeq(s, Len(s) - Len(p) + 1, Len(s)) = p

Includes(s, p) == \E i \in 1..(Len(s) - Len(p) + 1) : SubSeq(s, i, i + Len(p) - 1) = p

\* first index at which p occurs in s, 0 when it does not occur
IndexOf(s, p) ==
    IF Includes(s, p)
    THEN CHOOSE i \in 1..(Len(s) - Len(p) + 1) :
            /\ SubSeq(s, i, i + Len(p) - 1) = p
            /\ \A j \in 1..(i - 1) : SubSeq(s, j, j + Len(p) - 1) # p
    ELSE 0

LastIndexOf(s, p) ==
    IF Includes(s, p)
    THEN CHOOSE i \in 1..(Len(s) - Len(p) + 1) :
            /\ SubSeq(s, i, i + Len(p) - 1) = p
            /\ \A j \in (i + 1)..(Len(s) - Len(p) + 1) : SubSeq(s, j, j + Len(p) - 1) # p
    ELSE 0

MergeSep == <<":", ":">>

\* s.split('::')[0]
SplitFirst(s) == IF Includes(s, MergeSep) THEN SubSeq(s, 1, IndexOf(s, MergeSep) - 1) ELSE s

RECURSIVE SelectUnits(_, _)
SelectUnits(s, keep) ==
    IF s = <<>> THEN <<>>
    ELSE IF Head(s) \in keep THEN <<Head(s)>> \o SelectUnits(Tail(s), keep)
    ELSE SelectUnits(Tail(s), keep)

RECURSIVE DropUnits(_, _)
DropUnits(s, drop) ==
    IF s = <<>> THEN <<>>
    ELSE IF Head(s) \in drop THEN DropUnits(Tail(s), drop)
    ELSE <<Head(s)>> \o DropUnits(Tail(s), drop)

Range(q) == {q[i] : i \in 1..Len(q)}

\* ------------------------------------------------------------- keyManager.ts
ReplaceCtl(s) == [i \in 1..Len(s) |-> IF s[i] \in {"\r", "\n", "\t"} THEN " " ELSE s[i]]

RECURSIVE CollapseWs(_)
CollapseWs(s) ==
    IF Len(s) < 2 THEN s
    ELSE IF IsWs(s[1]) /\ IsWs(s[2]) THEN CollapseWs(<<" ">> \o SubSeq(s, 3, Len(s)))
    ELSE <<(IF IsWs(s[1]) THEN " " ELSE s[1])>> \o CollapseWs(Tail(s))

normalizeKey(value) ==
    IF value = Undefined THEN <<>>
    ELSE Trim(CollapseWs(ReplaceCtl(Trim(value))))

Sentinel == <<"U","N","K","N","O","W","N">>

getIntegratedKey(refKey, compKey) ==
    LET normalizedRef  == normalizeKey(refKey)
        normalizedComp == normalizeKey(compKey)
    IN  IF normalizedRef # <<>> THEN normalizedRef
        ELSE IF normalizedComp # <<>> THEN normalizedComp
        ELSE Sentinel

\* -------------------------------------------------------- comparisonEngine.ts
DigitVal(c) == PosIn(c, Digits) - 1

RECURSIVE DigitsToNat(_)
DigitsToNat(s) == IF s = <<>> THEN 0 ELSE DigitsToNat(SubSeq(s, 1, Len(s) - 1)) * 10 + DigitVal(s[Len(s)])

RECURSIVE Pow10(_)
Pow10(n) == IF n = 0 THEN 1 ELSE 10 * Pow10(n - 1)

NaN == [ok |-> FALSE, neg |-> FALSE, mant |-> 0, scale |-> 0]

\* Number(s) for the decimal literals of StringNumericLiteral (optional sign,
\* digits, optional fraction); '' is 0; anything else is NaN.
Number(s) ==
    LET t      == Trim(s)
        signed == t # <<>> /\ Head(t) \in {"+", "-"}
        body   == IF signed THEN Tail(t) ELSE t
        dot    == IndexOf(body, <<".">>)
        intp   == IF dot = 0 THEN body ELSE SubSeq(body, 1, dot - 1)
        frac   == IF dot = 0 THEN <<>> ELSE SubSeq(body, dot + 1, Len(body))
        ds     == intp \o frac
    IN  IF t = <<>> THEN [ok |-> TRUE, neg |-> FALSE, mant |-> 0, scale |-> 0]
        ELSE IF ds # <<>> /\ \A i \in 1..Len(ds) : InSeq(ds[i], Digits)
        THEN [ok |-> TRUE, neg |-> (signed /\ Head(t) = "-"), mant |-> DigitsToNat(ds), scale |-> Len(frac)]
        ELSE NaN

NumEq(a, b) ==
    /\ a.mant * Pow10(b.scale) = b.mant * Pow10(a.scale)
    /\ (a.neg = b.neg \/ a.mant = 0)

isValuesMatch(v1, v2) ==
    LET s1 == normalizeKey(v1)
        s2 == normalizeKey(v2)
        n1 == Number(DropUnits(s1, {","}))
        n2 == Number(DropUnits(s2, {","}))
    IN  \/ toLowerCase(s1) = toLowerCase(s2)
        \/ (s1 # <<>> /\ s2 # <<>> /\ n1.ok /\ n2.ok /\ NumEq(n1, n2))

\* A raw row (Record<string, unknown>) is the sequence of its <<key, value>>
\* pairs in insertion order; NoRow is null.
NoRow == <<>>

RawKeys(row) == [i \in 1..Len(row) |-> row[i][1]]

RawGet(row, col) ==
    IF \E i \in 1..Len(row) : row[i][1] = col
    THEN row[CHOOSE i \in 1..Len(row) : row[i][1] = col][2]
    ELSE Undefined

FindIndex(n, P(_)) == IF \E i \in 1..n : P(i) THEN CHOOSE i \in 1..n : P(i) /\ \A j \in 1..(i - 1) : ~P(j) ELSE 0

IsAlnumKo(c) == InSeq(c, LettersL) \/ InSeq(c, Digits) \/ c \in Hangul

\* the pattern test shared by applyExclusionRules and filterMappings: a
\* pattern wrapped in /.../ is a case-insensitive regular expression (an
\* optional ^ anchor followed by literal units), any other a substring.
RegexTest(body, text) ==
    IF body # <<>> /\ Head(body) = "^"
    THEN StartsWith(toLowerCase(text), toLowerCase(Tail(body)))
    ELSE Includes(toLowerCase(text), toLowerCase(body))

IsRegexPattern(trimmed) == StartsWith(trimmed, <<"/">>) /\ EndsWith(trimmed, <<"/">>)

PatternMatches(pattern, text, fold(_)) ==
    LET trimmed == Trim(pattern)
    IN  IF trimmed = <<>> THEN FALSE
        ELSE IF IsRegexPattern(trimmed) THEN RegexTest(SubSeq(trimmed, 2, Len(trimmed) - 1), text)
        ELSE Includes(fold(text), fold(trimmed))

B1Prefix == <<"0", "-">>

\* mutant: the custom patterns are not applied
KeepsRow_NoPatterns(row, pkColumn, useB1Filter, pkExclusion, oldExclusionRules) ==
    LET rawValue == RawGet(row, pkColumn)
        pkValue  == normalizeKey(rawValue)
    IN  /\ ~(pkExclusion.excludeEmpty /\ (~Truthy(rawValue) \/ Trim(Str(rawValue)) = <<>>))
        /\ pkValue # <<>>
        /\ ~(useB1Filter /\ ~StartsWith(pkValue, B1Prefix))
        /\ ~(pkExclusion.excludeStartAlpha /\ (InSeq(Head(pkValue), LettersL) \/ InSeq(Head(pkValue), LettersU)))

KeepsRow(row, pkColumn, useB1Filter, pkExclusion, oldExclusionRules) ==
    LET rawValue == RawGet(row, pkColumn)
        pkValue  == normalizeKey(rawValue)
        patterns == pkExclusion.customPatterns
    IN  /\ ~(pkExclusion.excludeEmpty /\ (~Truthy(rawValue) \/ Trim(Str(rawValue)) = <<>>))
        /\ pkValue # <<>>
        /\ ~(useB1Filter /\ ~StartsWith(pkValue, B1Prefix))
        /\ ~(pkExclusion.excludeStartAlpha /\ (InSeq(Head(pkValue), LettersL) \/ InSeq(Head(pkValue), LettersU)))
        /\ ~(\E i \in 1..Len(patterns) : PatternMatches(patterns[i], pkValue, toUpperCase))

applyExclusionRules(data, pkColumn, useB1Filter, pkExclusion, oldExclusionRules) ==
    LET keep(row) == KeepsRow(row, pkColumn, useB1Filter, pkExclusion, oldExclusionRules)
    IN  SelectSeq(data, keep)

Unnamed == <<"u","n","n","a","m","e","d">>

ColumnWord == <<"c","o","l","u","m","n">>

\* /^column\s*\d+$/i
IsColumnN(lower) ==
    /\ StartsWith(lower, ColumnWord)
    /\ LET rest == TrimLeft(SubSeq(lower, Len(ColumnWord) + 1, Len(lower)))
       IN  rest # <<>> /\ \A i \in 1..Len(rest) : InSeq(rest[i], Digits)

KeepsMapping(m, config) ==
    LET colName == m.refColumn
        lower   == toLowerCase(colName)
    IN  \/ m.isPK \/ m.isSK
        \/ /\ ~(config.excludeUnnamed /\ (StartsWith(lower, Unnamed) \/ IsColumnN(lower)))
           /\ ~(\E i \in 1..Len(config.patterns) : PatternMatches(config.patterns[i], colName, toLowerCase))

filterMappings(mappings, config) ==
    LET keep(m) == KeepsMapping(m, config)
    IN  SelectSeq(mappings, keep)

normalizeName(s) == SelectSeq(toLowerCase(s), IsAlnumKo)

getFuzzyValue(row, colName) ==
    IF row = NoRow THEN Undefined
    ELSE IF RawGet(row, colName) # Undefined THEN RawGet(row, colName)
    ELSE LET hit(i) == normalizeName(row[i][1]) = normalizeName(colName)
             found == FindIndex(Len(row), hit)
         IN  IF found # 0 THEN row[found][2] ELSE Undefined

GIJUN == <<"_", "GIJUN">>

BIGYO == <<"_", "BIGYO">>

GEOMTO == <<"GEOMTO">>

getValueWithFallback(row, col) ==
    LET main == normalizeKey(getFuzzyValue(row, col))
    IN  IF main # <<>> THEN main
        ELSE IF EndsWith(col, GIJUN) \/ EndsWith(col, BIGYO)
        THEN normalizeKey(getFuzzyValue(row, col \o GEOMTO))
        ELSE <<>>

DIFF == <<"_", "d", "i", "f", "f">>

SKMATCH == <<"s", "k", "M", "a", "t", "c", "h">>

TrueStr == <<"true">>

RefCol(base) == base \o GIJUN

RefReviewCol(base) == base \o GIJUN \o GEOMTO

CompCol(base) == base \o BIGYO

CompReviewCol(base) == base \o BIGYO \o GEOMTO

DiffCol(base) == base \o DIFF

\* mappings.find(pred): the first matching entry, or NoMapping
NoMapping == [refColumn |-> <<>>, compColumn |-> <<>>, isTarget |-> FALSE, isPK |-> FALSE, isSK |-> FALSE]

FindPK(mappings) ==
    LET isPK(i) == mappings[i].isPK
        k == FindIndex(Len(mappings), isPK)
    IN  IF k = 0 THEN NoMapping ELSE mappings[k]

FindSK(mappings) ==
    LET isSK(i) == mappings[i].isSK
        k == FindIndex(Len(mappings), isSK)
    IN  IF k = 0 THEN NoMapping ELSE mappings[k]

CompPKColumn(mappings, pkColumn) ==
    IF FindPK(mappings).compColumn # <<>> THEN FindPK(mappings).compColumn ELSE pkColumn

\* `a || b` on strings
OrElse(a, b) == IF a # <<>> THEN a ELSE b

DiffCell(base, status, effectiveRef, effectiveComp) ==
    IF status = "Both" /\ ~isValuesMatch(effectiveRef, effectiveComp)
    THEN DiffCol(base) :> TrueStr
    ELSE <<>>

\* step 6 of createResultRow for one mapping
MappedCells(m, refRow, compRow, status) ==
    LET refVal        == normalizeKey(getFuzzyValue(refRow, m.refColumn))
        refReviewVal  == IF refRow # NoRow THEN normalizeKey(getFuzzyValue(refRow, m.refColumn \o GEOMTO)) ELSE <<>>
        compVal       == normalizeKey(getFuzzyValue(compRow, m.compColumn))
        compReviewVal == IF compRow # NoRow THEN normalizeKey(getFuzzyValue(compRow, m.compColumn \o GEOMTO)) ELSE <<>>
        effectiveRefVal  == OrElse(refVal, refReviewVal)
        effectiveCompVal == OrElse(compVal, compReviewVal)
    IN  DiffCell(m.refColumn, status, effectiveRefVal, effectiveCompVal)
        @@ (RefCol(m.refColumn) :> refVal)
        @@ (RefReviewCol(m.refColumn) :> refReviewVal)
        @@ (CompCol(m.refColumn) :> compVal)
        @@ (CompReviewCol(m.refColumn) :> compReviewVal)

\* step 5 of createResultRow
SKCells(skMapping, refRow, compRow, status) ==
    LET refSK        == IF refRow # NoRow THEN normalizeKey(RawGet(refRow, skMapping.refColumn)) ELSE <<>>
        refReviewSK  == IF refRow # NoRow THEN normalizeKey(getFuzzyValue(refRow, skMapping.refColumn \o GEOMTO)) ELSE <<>>
        compSK       == IF compRow # NoRow THEN normalizeKey(RawGet(compRow, skMapping.compColumn)) ELSE <<>>
        compReviewSK == IF compRow # NoRow THEN normalizeKey(getFuzzyValue(compRow, skMapping.compColumn \o GEOMTO)) ELSE <<>>
    IN  DiffCell(skMapping.refColumn, status, OrElse(refSK, refReviewSK), OrElse(compSK, compReviewSK))
        @@ (RefCol(skMapping.refColumn) :> refSK)
        @@ (RefReviewCol(skMapping.refColumn) :> refReviewSK)
        @@ (CompCol(skMapping.refColumn) :> compSK)
        @@ (CompReviewCol(skMapping.refColumn) :> compReviewSK)

RECURSIVE AllMappedCells(_, _, _, _)
AllMappedCells(ms, refRow, compRow, status) ==
    IF ms = <<>> THEN <<>>
    ELSE LET m == ms[Len(ms)]
             before == AllMappedCells(SubSeq(ms, 1, Len(ms) - 1), refRow, compRow, status)
         IN  IF m.isPK \/ m.isSK THEN before
             ELSE MappedCells(m, refRow, compRow, status) @@ before

createResultRow(refRow, compRow, status, config) ==
    LET pkColumn     == config.pkColumn
        mappings     == config.mappings
        compPKColumn == CompPKColumn(mappings, pkColumn)
        refPK        == IF refRow # NoRow THEN normalizeKey(RawGet(refRow, pkColumn)) ELSE <<>>
        rawRefReview == getFuzzyValue(refRow, pkColumn \o GEOMTO)
        refReviewPK  == IF refRow # NoRow /\ Truthy(rawRefReview) THEN normalizeKey(rawRefReview) ELSE <<>>
        effectiveRefPK == OrElse(refPK, refReviewPK)
        compPK       == IF compRow # NoRow THEN normalizeKey(RawGet(compRow, compPKColumn)) ELSE <<>>
        rawCompReview == getFuzzyValue(compRow, compPKColumn \o GEOMTO)
        compReviewPK == IF compRow # NoRow /\ Truthy(rawCompReview) THEN normalizeKey(rawCompReview) ELSE <<>>
        effectiveCompPK == OrElse(compPK, compReviewPK)
        skMapping    == FindSK(mappings)
        pkCells      == DiffCell(pkColumn, status, effectiveRefPK, effectiveCompPK)
                        @@ (RefCol(pkColumn) :> refPK)
                        @@ (RefReviewCol(pkColumn) :> refReviewPK)
                        @@ (CompCol(pkColumn) :> compPK)
                        @@ (CompReviewCol(pkColumn) :> compReviewPK)
        skCells      == IF skMapping # NoMapping THEN SKCells(skMapping, refRow, compRow, status) ELSE <<>>
    IN  [ integratedKey |-> getIntegratedKey(effectiveRefPK, effectiveCompPK),
          exists        |-> status,
          standardPK    |-> OrElse(effectiveRefPK, effectiveCompPK),
          standardSK    |-> IF skMapping # NoMapping
                            THEN OrElse(skCells[RefCol(skMapping.refColumn)], skCells[RefReviewCol(skMapping.refColumn)])
                            ELSE <<>>,
          cells         |-> AllMappedCells(mappings, refRow, compRow, status) @@ skCells @@ pkCells ]

NoMatch == [refMatched |-> {}, compMatched |-> {}, results |-> <<>>]

\* mutant: compMatched.add(compIdx) forgotten
Paired_NoCompMark(st, refIdx, compIdx, viaSK) ==
    [ refMatched  |-> st.refMatched \cup {refIdx},
      compMatched |-> st.compMatched,
      results     |-> Append(st.results, [ref |-> refIdx, comp |-> compIdx, exists |-> "Both", sk |-> viaSK]) ]

Paired(st, refIdx, compIdx, viaSK) ==
    [ refMatched  |-> st.refMatched \cup {refIdx},
      compMatched |-> st.compMatched \cup {compIdx},
      results     |-> Append(st.results, [ref |-> refIdx, comp |-> compIdx, exists |-> "Both", sk |-> viaSK]) ]

FindLastIndex(n, P(_)) == IF \E i \in 1..n : P(i) THEN CHOOSE i \in 1..n : P(i) /\ \A j \in (i + 1)..n : ~P(j) ELSE 0

\* mutant: the scan takes the last candidate instead of the first
PKStep_LastMatch(st, refIdx, filteredRef, filteredComp, pkColumn, compPKColumn) ==
    LET refPKRaw == getValueWithFallback(filteredRef[refIdx], pkColumn)
        refPK    == SplitFirst(refPKRaw)
        hit(idx) == /\ idx \notin st.compMatched
                    /\ SplitFirst(getValueWithFallback(filteredComp[idx], compPKColumn)) = refPK
        compIdx  == FindLastIndex(Len(filteredComp), hit)
    IN  IF refPKRaw = <<>> THEN st
        ELSE IF compIdx # 0 THEN Paired(st, refIdx, compIdx, FALSE)
        ELSE st

\* [Principle 1] one iteration of the PK loop
PKStep(st, refIdx, filteredRef, filteredComp, pkColumn, compPKColumn) ==
    LET refPKRaw == getValueWithFallback(filteredRef[refIdx], pkColumn)
        refPK    == SplitFirst(refPKRaw)
        hit(idx) == /\ idx \notin st.compMatched
                    /\ SplitFirst(getValueWithFallback(filteredComp[idx], compPKColumn)) = refPK
        compIdx  == FindIndex(Len(filteredComp), hit)
    IN  IF refPKRaw = <<>> THEN st
        ELSE IF compIdx # 0 THEN Paired(st, refIdx, compIdx, FALSE)
        ELSE st

\* mutant: Principle 2 also takes reference rows Principle 1 has paired
SKStep_Rematches(st, refIdx, filteredRef, filteredComp, skColumn, compSKColumn) ==
    LET refSK    == getValueWithFallback(filteredRef[refIdx], skColumn)
        hit(idx) == /\ idx \notin st.compMatched
                    /\ getValueWithFallback(filteredComp[idx], compSKColumn) = refSK
        compIdx  == FindIndex(Len(filteredComp), hit)
    IN  IF refSK = <<>> THEN st
        ELSE IF compIdx # 0 THEN Paired(st, refIdx, compIdx, TRUE)
        ELSE st

\* [Principle 2] one iteration of the SK loop
SKStep(st, refIdx, filteredRef, filteredComp, skColumn, compSKColumn) ==
    LET refSK    == getValueWithFallback(filteredRef[refIdx], skColumn)
        hit(idx) == /\ idx \notin st.compMatched
                    /\ getValueWithFallback(filteredComp[idx], compSKColumn) = refSK
        compIdx  == FindIndex(Len(filteredComp), hit)
    IN  IF refIdx \in st.refMatched THEN st
        ELSE IF refSK = <<>> THEN st
        ELSE IF compIdx # 0 THEN Paired(st, refIdx, compIdx, TRUE)
        ELSE st

\* for (refIdx = 0; refIdx < filteredRef.length; refIdx++) of Principle 1
RECURSIVE PKLoop(_, _, _, _, _, _)
PKLoop(st, refIdx, filteredRef, filteredComp, pkColumn, compPKColumn) ==
    IF refIdx > Len(filteredRef) THEN st
    ELSE PKLoop(PKStep(st, refIdx, filteredRef, filteredComp, pkColumn, compPKColumn),
                refIdx + 1, filteredRef, filteredComp, pkColumn, compPKColumn)

\* the same loop of Principle 2, entered only when both SK columns are set
RECURSIVE SKLoop(_, _, _, _, _, _)
SKLoop(st, refIdx, filteredRef, filteredComp, skColumn, compSKColumn) ==
    IF skColumn = <<>> \/ compSKColumn = <<>> \/ refIdx > Len(filteredRef) THEN st
    ELSE SKLoop(SKStep(st, refIdx, filteredRef, filteredComp, skColumn, compSKColumn),
                refIdx + 1, filteredRef, filteredComp, skColumn, compSKColumn)

\* [Principle 3] the pairs, then the unmatched reference rows in order, then
\* the unmatched comparison rows in order
WithRemaining(both, nRef, nComp) ==
    LET isOnlyRef(i)  == i \notin both.refMatched
        isOnlyComp(i) == i \notin both.compMatched
        onlyRef(i)    == [ref |-> i, comp |-> 0, exists |-> "Only Ref", sk |-> FALSE]
        onlyComp(i)   == [ref |-> 0, comp |-> i, exists |-> "Only Comp", sk |-> FALSE]
        indexes(n)    == [i \in 1..n |-> i]
        each(q, f(_)) == [k \in 1..Len(q) |-> f(q[k])]
    IN  both.results
        \o each(SelectSeq(indexes(nRef), isOnlyRef), onlyRef)
        \o each(SelectSeq(indexes(nComp), isOnlyComp), onlyComp)

\* the four principles over the filtered rows: who is paired with whom
MatchPairs(filteredRef, filteredComp, config) ==
    WithRemaining(
        SKLoop(PKLoop(NoMatch, 1, filteredRef, filteredComp, config.pkColumn,
                      CompPKColumn(config.mappings, config.pkColumn)),
               1, filteredRef, filteredComp, config.skColumn, FindSK(config.mappings).compColumn),
        Len(filteredRef), Len(filteredComp))

EffectiveMappings(mappings, columnExclusion) ==
    LET wanted(m) == m.isTarget \/ m.isPK \/ m.isSK
    IN  filterMappings(SelectSeq(mappings, wanted), columnExclusion)

FilteredRef(refData, config, useB1Filter) ==
    applyExclusionRules(refData, config.pkColumn, useB1Filter, config.pkExclusion, config.exclusionRules)

FilteredComp(compData, config, useB1Filter) ==
    applyExclusionRules(compData, CompPKColumn(config.mappings, config.pkColumn), useB1Filter,
                        config.pkExclusion, config.exclusionRules)

\* one output row per pair, marked skMatch when Principle 2 made the pair
ResultRow(e, filteredRef, filteredComp, rowConfig) ==
    LET mark(row) == IF e.sk THEN [row EXCEPT !.cells = (SKMATCH :> TrueStr) @@ @] ELSE row
    IN  mark(createResultRow(IF e.ref = 0 THEN NoRow ELSE filteredRef[e.ref],
                             IF e.comp = 0 THEN NoRow ELSE filteredComp[e.comp],
                             e.exists, rowConfig))

ResultRows(pairs, filteredRef, filteredComp, rowConfig) ==
    [k \in 1..Len(pairs) |-> ResultRow(pairs[k], filteredRef, filteredComp, rowConfig)]

MatchAndBuild(filteredRef, filteredComp, config, rowConfig) ==
    ResultRows(MatchPairs(filteredRef, filteredComp, config), filteredRef, filteredComp, rowConfig)

compareDatasets(refData, compData, config, useB1Filter) ==
    MatchAndBuild(FilteredRef(refData, config, useB1Filter),
                  FilteredComp(compData, config, useB1Filter),
                  config,
                  [config EXCEPT !.mappings = EffectiveMappings(config.mappings, config.columnExclusion)])

\* --------------------------------------------------- gridStore.ts: the rows
\* row[colId] of a grid row; the four fixed fields are record fields
Cell(row, colId) == IF colId \in DOMAIN row.cells THEN row.cells[colId] ELSE Undefined

\* String(row[colId] || '').trim()
CellStr(row, colId) == Trim(Str(Cell(row, colId)))

REVIEW_REMARKS == <<"r","e","v","i","e","w","_","r","e","m","a","r","k","s">>

ManualEntry == <<"Manual Entry">>

ADDED == <<"CHUGA">>

CHECK == <<"C","H","E","C","K","-">>

RECURSIVE NatToStr(_)
NatToStr(n) == IF n < 10 THEN <<Digits[n + 1]>> ELSE NatToStr(n \div 10) \o <<Digits[(n % 10) + 1]>>

\* the row addChecklistItem builds; Date.now() is `now`
ChecklistRow(pk, remarks, pkColumn, now) ==
    [ integratedKey |-> CHECK \o NatToStr(now),
      exists        |-> "Both",
      standardPK    |-> OrElse(pk, ManualEntry),
      standardSK    |-> <<>>,
      cells         |-> IF pkColumn # <<>>
                        THEN (REVIEW_REMARKS :> remarks)
                             @@ (RefCol(pkColumn) :> OrElse(pk, ManualEntry))
                             @@ (CompCol(pkColumn) :> OrElse(pk, ManualEntry))
                             @@ (RefReviewCol(pkColumn) :> ADDED)
                             @@ (CompReviewCol(pkColumn) :> ADDED)
                        ELSE (REVIEW_REMARKS :> remarks) ]

\* newRows.splice(globalIdx, 0, newRow), or [newRow, ...rows]
InsertAt(rows, globalIdx, newRow) ==
    IF globalIdx = 0 THEN <<newRow>> \o rows
    ELSE SubSeq(rows, 1, globalIdx - 1) \o <<newRow>> \o SubSeq(rows, globalIdx, Len(rows))

\* applyFiltersAndSort with no column filter and no sort column: the view is
\* the rows the exists-mode keeps, in store order
applyFiltersAndSort(rows, existsMode) ==
    LET keep(r) == \/ existsMode = "All"
                   \/ (existsMode = "Diff" /\ r.exists \in {"Only Ref", "Only Comp"})
                   \/ (existsMode \notin {"All", "Diff"} /\ r.exists = existsMode)
    IN  SelectSeq(rows, keep)

addChecklistItem(rows, pk, remarks, pkColumn, selectedRowIndex, filteredRows, now) ==
    LET sameKey(i) == rows[i].integratedKey = filteredRows[selectedRowIndex].integratedKey
    IN  IF selectedRowIndex # 0 /\ selectedRowIndex <= Len(filteredRows)
        THEN InsertAt(rows, FindIndex(Len(rows), sameKey), ChecklistRow(pk, remarks, pkColumn, now))
        ELSE InsertAt(rows, 0, ChecklistRow(pk, remarks, pkColumn, now))

\* newRows[rowIdx] = { ...newRows[rowIdx], [colId]: value } when the row exists
setCellValue(rows, rowIdx, colId, value) ==
    IF rowIdx \in 1..Len(rows)
    THEN [rows EXCEPT ![rowIdx].cells = (colId :> value) @@ @]
    ELSE rows

RECURSIVE setCellValuesBatch(_, _)
setCellValuesBatch(rows, updates) ==
    IF updates = <<>> THEN rows
    ELSE setCellValuesBatch(setCellValue(rows, Head(updates).rowIdx, Head(updates).colId, Head(updates).value),
                            Tail(updates))

\* ------------------------------------------- gridStore.ts: memos (comments)
COLON == <<":">>

\* `${rowKey}:${colId}`
MemoKey(rowKey, colId) == rowKey \o COLON \o colId

setMemo(memos, rowKey, colId, memo) == (MemoKey(rowKey, colId) :> memo) @@ memos

\* deleteRow: rows.filter(r => r.integratedKey !== rowKey), and every memo whose
\* key starts with `${rowKey}:` is dropped
deleteRow(rows, memos, rowKey) ==
    LET kept(r) == r.integratedKey # rowKey
        keys == {k \in DOMAIN memos : ~StartsWith(k, rowKey \o COLON)}
    IN  [ rows  |-> SelectSeq(rows, kept),
          memos |-> [k \in keys |-> memos[k]] ]

NoWorkbook == [loaded |-> FALSE, data |-> <<>>, columns |-> <<>>, comments |-> <<>>]

\* buildRowMap: `${pVal}-${sVal}` (pVal alone without an SK column)
RowMapKey(row, pkCol, skCol) ==
    IF skCol # <<>>
    THEN Trim(Str(RawGet(row, pkCol))) \o <<"-">> \o Trim(Str(RawGet(row, skCol)))
    ELSE Trim(Str(RawGet(row, pkCol)))

\* rowMap.get(key): map.set keeps the last row of a key; 0 is undefined
RowMapGet(sheet, pkCol, skCol, key) ==
    LET hit(i) == RowMapKey(sheet.data[i], pkCol, skCol) # <<>> /\ RowMapKey(sheet.data[i], pkCol, skCol) = key
    IN  FindLastIndex(Len(sheet.data), hit)

\* the memos one result row takes from the comments of its source row
RowComments(sheet, srcRowIdx, key, suffix) ==
    LET commented == {c \in 1..Len(sheet.columns) : <<srcRowIdx, c>> \in DOMAIN sheet.comments}
        colOf(mk) == CHOOSE c \in commented : MemoKey(key, sheet.columns[c] \o suffix) = mk
    IN  [mk \in {MemoKey(key, sheet.columns[c] \o suffix) : c \in commented} |->
            sheet.comments[<<srcRowIdx, colOf(mk)>>]]

RECURSIVE processComments(_, _, _, _, _, _)
processComments(sheet, results, k, pkCol, skCol, suffix) ==
    IF k = 0 THEN <<>>
    ELSE RowComments(sheet, RowMapGet(sheet, pkCol, skCol, results[k].integratedKey),
                     results[k].integratedKey, suffix)
         @@ processComments(sheet, results, k - 1, pkCol, skCol, suffix)

\* newMemos of runComparison: reference comments, then comparison comments
CommentMemos(refSheet, compSheet, results, pk, sk) ==
    processComments(compSheet, results, Len(results), pk, sk, BIGYO)
    @@ processComments(refSheet, results, Len(results), pk, sk, GIJUN)

\* the store's initial exclusion settings
DefaultPkExclusion == [excludeStartAlpha |-> FALSE, excludeEmpty |-> TRUE, customPatterns |-> <<>>]

DefaultColumnExclusion == [excludeUnnamed |-> TRUE, patterns |-> <<>>]

StoreConfig(mappings, pk, sk) ==
    [ pkColumn |-> pk, skColumn |-> sk, mappings |-> mappings, exclusionRules |-> <<>>,
      pkExclusion |-> DefaultPkExclusion, columnExclusion |-> DefaultColumnExclusion ]

\* ------------------------------------ gridStore.ts: applyReviewCompensation
PkRefReviewCol(mappings, pkColumn) ==
    IF FindPK(mappings) # NoMapping THEN RefReviewCol(FindPK(mappings).refColumn) ELSE RefReviewCol(pkColumn)

PkCompReviewCol(mappings, pkColumn) ==
    IF FindPK(mappings) # NoMapping THEN CompReviewCol(FindPK(mappings).refColumn) ELSE CompReviewCol(pkColumn)

\* getReviewChanges().length > 0
HasReviewChanges(rows, refReviewCol, compReviewCol) ==
    \E i \in 1..Len(rows) : CellStr(rows[i], refReviewCol) # <<>> \/ CellStr(rows[i], compReviewCol) # <<>>

\* (refReviewVal || compReviewVal || row.integratedKey).split('::')[0]
TargetKey(row, refReviewCol, compReviewCol) ==
    SplitFirst(OrElse(CellStr(row, refReviewCol), OrElse(CellStr(row, compReviewCol), row.integratedKey)))

TargetKeys(rows, refReviewCol, compReviewCol) ==
    [i \in 1..Len(rows) |-> TargetKey(rows[i], refReviewCol, compReviewCol)]

\* the keys of a Map in insertion order
RECURSIVE Unique(_)
Unique(q) ==
    IF q = <<>> THEN <<>>
    ELSE IF InSeq(q[Len(q)], SubSeq(q, 1, Len(q) - 1)) THEN Unique(SubSeq(q, 1, Len(q) - 1))
    ELSE Append(Unique(SubSeq(q, 1, Len(q) - 1)), q[Len(q)])

\* groups.get(key): the rows of one target key, in row order
GroupRows(rows, targets, key) ==
    LET member(i) == targets[i] = key
        pick(idx) == [k \in 1..Len(idx) |-> rows[idx[k]]]
    IN  pick(SelectSeq([i \in 1..Len(rows) |-> i], member))

Remark == <<"R","e","m","a","r","k">>

IsRemarkType(colKey) ==
    Includes(colKey, GEOMTO) \/ Includes(colKey, <<"BIGO">>) \/ Includes(colKey, Remark)

MergeSlash == <<" ", "/", " ">>

\* what mergedRow[colKey] holds after one source cell with non-blank srcVal
MergedValue(colKey, destRaw, srcRaw, destVal, srcVal) ==
    IF IsRemarkType(colKey)
    THEN IF destVal = <<>> THEN srcVal
         ELSE IF srcVal # destVal /\ ~Includes(destVal, srcVal) THEN destVal \o MergeSlash \o srcVal
         ELSE destRaw
    ELSE IF destVal = <<>> THEN srcRaw ELSE destRaw

\* Object.keys(srcRow).forEach(...) for one source row
MergeRow(mergedRow, srcRow) ==
    LET written == {c \in DOMAIN srcRow.cells : CellStr(srcRow, c) # <<>>}
    IN  [mergedRow EXCEPT !.cells =
            [c \in written |-> MergedValue(c, Cell(mergedRow, c), srcRow.cells[c],
                                           CellStr(mergedRow, c), CellStr(srcRow, c))] @@ @]

RECURSIVE MergeAll(_, _, _)
MergeAll(mergedRow, groupRows, k) ==
    IF k > Len(groupRows) THEN mergedRow
    ELSE MergeAll(MergeRow(mergedRow, groupRows[k]), groupRows, k + 1)

\* groupRows.find(r => r.exists === 'Both' || r.exists === 'Both(M)') || groupRows[0]
Representative(groupRows) ==
    LET isBoth(i) == groupRows[i].exists \in {"Both", "Both(M)"}
        at(k) == IF k = 0 THEN groupRows[1] ELSE groupRows[k]
    IN  at(FindIndex(Len(groupRows), isBoth))

\* a grouping that sends a group of one row through the merge as well
GroupResult_AlwaysMerges(groupRows, key, refReviewCol, compReviewCol) ==
    MergeAll([Representative(groupRows) EXCEPT !.integratedKey = key, !.exists = "Both(M)"], groupRows, 1)

\* the row one group leaves in finalRows
GroupResult(groupRows, key, refReviewCol, compReviewCol) ==
    IF Len(groupRows) = 1
    THEN IF \/ CellStr(groupRows[1], refReviewCol) # <<>>
            \/ CellStr(groupRows[1], compReviewCol) # <<>>
            \/ groupRows[1].integratedKey # key
         THEN [groupRows[1] EXCEPT !.integratedKey = key]
         ELSE groupRows[1]
    ELSE MergeAll([Representative(groupRows) EXCEPT !.integratedKey = key, !.exists = "Both(M)"], groupRows, 1)

\* a regrouping that leaves one row for every row it is given
FinalRows_PerRow(rows, targets, keys, refReviewCol, compReviewCol) ==
    [i \in 1..Len(rows) |-> GroupResult(<<rows[i]>>, targets[i], refReviewCol, compReviewCol)]

FinalRows(rows, targets, keys, refReviewCol, compReviewCol) ==
    [g \in 1..Len(keys) |-> GroupResult(GroupRows(rows, targets, keys[g]), keys[g], refReviewCol, compReviewCol)]

\* memosByRow: every memo key cut at its last ':'
MemosByRow(memos) ==
    LET cut(k, lastColon) == [rowKey |-> SubSeq(k, 1, lastColon - 1),
                              colId  |-> SubSeq(k, lastColon + 1, Len(k)),
                              text   |-> memos[k]]
    IN  {cut(k, LastIndexOf(k, COLON)) : k \in {m \in DOMAIN memos : Includes(m, COLON)}}

RECURSIVE JoinLines(_)
JoinLines(texts) ==
    IF Len(texts) = 0 THEN <<>>
    ELSE IF Len(texts) = 1 THEN texts[1]
    ELSE texts[1] \o <<"\n">> \o JoinLines(Tail(texts))

\* groupMemoMap.get(colId): the texts of the group's rows for one column
RECURSIVE GroupTexts(_, _, _, _)
GroupTexts(groupRows, k, colId, memosByRow) ==
    IF k > Len(groupRows) THEN <<>>
    ELSE LET mine == {e \in memosByRow : e.rowKey = groupRows[k].integratedKey /\ e.colId = colId}
         IN  (IF mine = {} THEN <<>> ELSE <<(CHOOSE e \in mine : TRUE).text>>)
             \o GroupTexts(groupRows, k + 1, colId, memosByRow)

\* the entries one group writes into nextMemos
GroupMemos(groupRows, key, memosByRow) ==
    LET rowKeys == {groupRows[k].integratedKey : k \in 1..Len(groupRows)}
        colIds  == {e.colId : e \in {m \in memosByRow : m.rowKey \in rowKeys}}
        colOf(mk) == CHOOSE c \in colIds : MemoKey(key, c) = mk
    IN  [mk \in {MemoKey(key, c) : c \in colIds} |->
            JoinLines(Unique(GroupTexts(groupRows, 1, colOf(mk), memosByRow)))]

RECURSIVE NextMemos(_, _, _, _, _)
NextMemos(rows, targets, keys, g, memosByRow) ==
    IF g = 0 THEN <<>>
    ELSE GroupMemos(GroupRows(rows, targets, keys[g]), keys[g], memosByRow)
         @@ NextMemos(rows, targets, keys, g - 1, memosByRow)

\* mergeCount: groupRows.length - 1 for every group of more than one row
RECURSIVE MergeCount(_, _, _, _)
MergeCount(rows, targets, keys, g) ==
    IF g = 0 THEN 0
    ELSE MergeCount(rows, targets, keys, g - 1)
         + (IF Len(GroupRows(rows, targets, keys[g])) = 1 THEN 0 ELSE Len(GroupRows(rows, targets, keys[g])) - 1)

\* what applyReviewCompensation leaves: rows, memos and its return value
Compensated(rows, memos, targets, keys, refReviewCol, compReviewCol) ==
    [ rows    |-> FinalRows(rows, targets, keys, refReviewCol, compReviewCol),
      memos   |-> NextMemos(rows, targets, keys, Len(keys), MemosByRow(memos)),
      applied |-> MergeCount(rows, targets, keys, Len(keys)) ]

GroupedBy(rows, memos, targets, refReviewCol, compReviewCol) ==
    Compensated(rows, memos, targets, Unique(targets), refReviewCol, compReviewCol)

applyReviewCompensation(rows, memos, refReviewCol, compReviewCol) ==
    IF ~HasReviewChanges(rows, refReviewCol, compReviewCol)
    THEN [rows |-> rows, memos |-> memos, applied |-> 0]
    ELSE GroupedBy(rows, memos, TargetKeys(rows, refReviewCol, compReviewCol), refReviewCol, compReviewCol)

\* ---------------------------------- gridStore.ts: applyAnalysisEngineChanges
\* A document (ExcelJS workbook) is the sequence of its worksheets; a
\* worksheet is [name, cells], cells[r][c] a cell [value, mark, strike].  mark
\* is "changed" (bold blue on yellow), "confirmed" (plain black, no fill),
\* "header" or "none"; strike is font.strike.
IntegratedKeyId == <<"integratedKey">>

ExistsId == <<"exists">>

TagNo == <<"T", "A", "G", " ", "N", "O">>

ServiceDescription == <<"Service Description">>

\* the four grid columns runComparison makes of one mapped column
ColumnVariants(id, title) ==
    << [id |-> RefCol(id), title |-> RefCol(title)],
       [id |-> RefReviewCol(id), title |-> RefReviewCol(title)],
       [id |-> CompCol(id), title |-> CompCol(title)],
       [id |-> CompReviewCol(id), title |-> CompReviewCol(title)] >>

RECURSIVE MappedColumns(_)
MappedColumns(ms) ==
    IF ms = <<>> THEN <<>>
    ELSE (IF Head(ms).isPK THEN <<>>
          ELSE ColumnVariants(Head(ms).refColumn,
                              IF Head(ms).isSK THEN ServiceDescription ELSE Head(ms).refColumn))
         \o MappedColumns(Tail(ms))

\* newColumns of runComparison
GridColumns(effectiveMappings, pk) ==
    << [id |-> IntegratedKeyId, title |-> <<"TONGHAP", " ", "K", "e", "y">>],
       [id |-> ExistsId, title |-> <<"GUBUN">>],
       [id |-> REVIEW_REMARKS, title |-> <<"GEOMTO", "UIGYEON">>] >>
    \o ColumnVariants(pk, IF Includes(toUpperCase(pk), <<"T", "A", "G">>) THEN pk ELSE TagNo)
    \o MappedColumns(effectiveMappings)

\* row[colId] over every key of a grid row
RowGet(row, colId) ==
    IF colId = IntegratedKeyId THEN row.integratedKey
    ELSE IF colId = ExistsId THEN <<row.exists>>
    ELSE Cell(row, colId)

\* s.replace(p, '')
ReplaceFirst(s, p) ==
    IF Includes(s, p)
    THEN SubSeq(s, 1, IndexOf(s, p) - 1) \o SubSeq(s, IndexOf(s, p) + Len(p), Len(s))
    ELSE s

BlankCell == [value |-> <<>>, mark |-> "none", strike |-> FALSE]

getCellValue(cell) == Trim(cell.value)

SheetRow(sheet, r) == IF r \in 1..Len(sheet.cells) THEN sheet.cells[r] ELSE <<>>

GetCell(sheet, r, c) == IF c \in 1..Len(SheetRow(sheet, r)) THEN sheet.cells[r][c] ELSE BlankCell

\* the cell (r, c) of worksheet s replaced, the row widened when c is past its end
PutCell(wb, s, r, c, cell) ==
    LET old   == wb[s].cells[r]
        width == IF c > Len(old) THEN c ELSE Len(old)
    IN  [wb EXCEPT ![s].cells[r] =
            [i \in 1..width |-> IF i = c THEN cell ELSE IF i <= Len(old) THEN old[i] ELSE BlankCell]]

IsWordKo(c) == IsAlnumKo(c) \/ c = "_"

normalizeHeader(s) == SelectSeq(toLowerCase(Str(s)), IsWordKo)

normalizeForComparison(s) == SelectSeq(toLowerCase(Str(s)), IsAlnumKo)

\* a Map is the sequence of its [key, value] entries in insertion order
MapHas(map, key) == \E i \in 1..Len(map) : map[i].key = key

MapGet(map, key) == map[CHOOSE i \in 1..Len(map) : map[i].key = key].value

\* map.set(key, value)
MapSet(map, key, value) ==
    IF MapHas(map, key)
    THEN [i \in 1..Len(map) |-> IF map[i].key = key THEN [key |-> key, value |-> value] ELSE map[i]]
    ELSE Append(map, [key |-> key, value |-> value])

\* if (!map.has(key)) map.set(key, value)
MapSetNew(map, key, value) == IF MapHas(map, key) THEN map ELSE Append(map, [key |-> key, value |-> value])

HeaderRowNum == 1

ScanLimit == 100

MaxKeyLength == 400

\* getColMap over the first n cells of a header row
RECURSIVE getColMap(_, _)
getColMap(headerRow, n) ==
    IF n = 0 THEN <<>>
    ELSE IF getCellValue(headerRow[n]) = <<>> THEN getColMap(headerRow, n - 1)
    ELSE MapSet(MapSet(getColMap(headerRow, n - 1), getCellValue(headerRow[n]), n),
                normalizeHeader(getCellValue(headerRow[n])), n)

\* findInMap: exact, then normalized, then either-contains-the-other; 0 is undefined
findInMap(map, key) ==
    LET normKey  == normalizeHeader(key)
        fuzzy(i) == /\ normalizeHeader(map[i].key) # <<>>
                    /\ \/ Includes(normalizeHeader(map[i].key), normKey)
                       \/ Includes(normKey, normalizeHeader(map[i].key))
    IN  IF key = <<>> THEN 0
        ELSE IF MapHas(map, key) THEN MapGet(map, key)
        ELSE IF MapHas(map, normKey) THEN MapGet(map, normKey)
        ELSE IF normKey # <<>> /\ FindIndex(Len(map), fuzzy) # 0 THEN map[FindIndex(Len(map), fuzzy)].value
        ELSE 0

CheckSheetName == <<"HWAGINSAHANG">>

AddedSheetName == <<"CHUGA", "HANGMOK">>

\* internal.some(sys => sheet.name.includes(sys))
IsInternalSheet(name) ==
    \E sys \in {CheckSheetName, <<"Change History">>, <<"GEOMTO", "IRYEOK">>} : Includes(name, sys)

\* checkRow of getRowMap: the identity column of a candidate header row, 0 when none
checkRow(hRow, normTitle) ==
    LET norm(c)       == normalizeHeader(getCellValue(hRow[c]))
        integrated(c) == /\ getCellValue(hRow[c]) # <<>>
                         /\ norm(c) \in {<<"TONGHAP", "k", "e", "y">>, <<"integratedkey">>, <<"TONGHAP", "KI">>}
        exact(c)      == getCellValue(hRow[c]) # <<>> /\ norm(c) = normTitle
        fuzzy(c)      == /\ getCellValue(hRow[c]) # <<>>
                         /\ norm(c) # <<>> /\ normTitle # <<>>
                         /\ (Includes(norm(c), normTitle) \/ Includes(normTitle, norm(c)))
    IN  IF FindIndex(Len(hRow), integrated) # 0 THEN FindIndex(Len(hRow), integrated)
        ELSE IF FindLastIndex(Len(hRow), exact) # 0 THEN FindLastIndex(Len(hRow), exact)
        ELSE FindIndex(Len(hRow), fuzzy)

\* the header row getRowMap settles on: the configured one, else the first of
\* the leading rows that holds the identity column; 0 when no row does
PkHeaderRow(sheet, headerRow, normTitle) ==
    LET found(r) == checkRow(SheetRow(sheet, r), normTitle) # 0
    IN  IF found(headerRow) THEN headerRow
        ELSE FindIndex(IF Len(sheet.cells) < ScanLimit THEN Len(sheet.cells) ELSE ScanLimit, found)

NoTarget == [sheet |-> 0, rowNumber |-> 0]

\* the three keys one document row is filed under, first row of a key wins
WithKeys(map, val, target) ==
    IF val = <<>> \/ Len(val) > MaxKeyLength THEN map
    ELSE IF normalizeForComparison(val) # <<>>
    THEN MapSetNew(MapSetNew(MapSetNew(map, val, target), toLowerCase(val), target),
                   normalizeForComparison(val), target)
    ELSE MapSetNew(MapSetNew(map, val, target), toLowerCase(val), target)

RECURSIVE RowEntries(_, _, _, _, _)
RowEntries(map, sheet, s, pkColIdx, r) ==
    IF r > Len(sheet.cells) THEN map
    ELSE RowEntries(WithKeys(map, getCellValue(GetCell(sheet, r, pkColIdx)), [sheet |-> s, rowNumber |-> r]),
                    sheet, s, pkColIdx, r + 1)

SheetRowMap(map, sheet, s, headerRow, normTitle, actualHeaderRow) ==
    IF IsInternalSheet(sheet.name) \/ actualHeaderRow = 0 THEN map
    ELSE RowEntries(map, sheet, s, checkRow(SheetRow(sheet, actualHeaderRow), normTitle), actualHeaderRow + 1)

\* the worksheets, the preferred one first
SortedSheets(wb, preferredSheetName) ==
    LET preferred(s) == wb[s].name = preferredSheetName
        other(s)     == wb[s].name # preferredSheetName
    IN  SelectSeq([s \in 1..Len(wb) |-> s], preferred) \o SelectSeq([s \in 1..Len(wb) |-> s], other)

RECURSIVE RowMapOver(_, _, _, _, _)
RowMapOver(map, wb, sortedSheets, headerRow, normTitle) ==
    IF sortedSheets = <<>> THEN map
    ELSE RowMapOver(SheetRowMap(map, wb[Head(sortedSheets)], Head(sortedSheets), headerRow, normTitle,
                                PkHeaderRow(wb[Head(sortedSheets)], headerRow, normTitle)),
                    wb, Tail(sortedSheets), headerRow, normTitle)

getRowMap(wb, pkTitle, headerRow, preferredSheetName) ==
    RowMapOver(<<>>, wb, SortedSheets(wb, preferredSheetName), headerRow, normalizeHeader(pkTitle))

\* checkStatus: 'delete', 'add' or "none" for null
checkStatus(val) ==
    LET s == toLowerCase(Trim(Str(val)))
    IN  IF s \in {<<"SAKJE">>, <<"d", "e", "l", "e", "t", "e">>} THEN "delete"
        ELSE IF s \in {<<"CHUGA">>, <<"a", "d", "d">>} THEN "add"
        ELSE "none"

SideCol(base, isRef) == IF isRef THEN RefCol(base) ELSE CompCol(base)

SideReviewCol(base, isRef) == IF isRef THEN RefReviewCol(base) ELSE CompReviewCol(base)

\* refLookupPK / compLookupPK
LookupPK(row, pkColumn, isRef) == CellStr(row, SideCol(pkColumn, isRef))

\* refStatus / compStatus, the implicit add included
SideStatus(row, pkColumn, isRef) ==
    IF checkStatus(Cell(row, SideReviewCol(pkColumn, isRef))) # "none"
    THEN checkStatus(Cell(row, SideReviewCol(pkColumn, isRef)))
    ELSE IF /\ LookupPK(row, pkColumn, isRef) = <<>>
            /\ Truthy(Cell(row, SideReviewCol(pkColumn, isRef)))
            /\ Trim(Cell(row, SideReviewCol(pkColumn, isRef))) # <<>>
    THEN "add"
    ELSE "none"

getEffectiveVal(row, baseColId, isRef) ==
    IF /\ RowGet(row, SideReviewCol(baseColId, isRef)) # Undefined
       /\ Trim(RowGet(row, SideReviewCol(baseColId, isRef))) # <<>>
    THEN Trim(RowGet(row, SideReviewCol(baseColId, isRef)))
    ELSE Str(RowGet(row, baseColId))

\* columns.filter(c => !c.id.endsWith(<other side>) && !c.id.endsWith(<other side>검토))
SideColumns(columns, isRef) ==
    LET mine(c) == /\ ~EndsWith(c.id, IF isRef THEN BIGYO ELSE GIJUN)
                   /\ ~EndsWith(c.id, (IF isRef THEN BIGYO ELSE GIJUN) \o GEOMTO)
    IN  SelectSeq(columns, mine)

\* refRowMap.get(k) || refRowMap.get(normalizeForComparison(k))
DeleteTarget(rowMap, lookupPK) ==
    IF MapHas(rowMap, lookupPK) THEN MapGet(rowMap, lookupPK)
    ELSE IF MapHas(rowMap, normalizeForComparison(lookupPK)) THEN MapGet(rowMap, normalizeForComparison(lookupPK))
    ELSE NoTarget

\* eachCell(cell => cell.font = { ...cell.font, strike: true }) over one row
StrikeRow(wb, target) ==
    [wb EXCEPT ![target.sheet].cells[target.rowNumber] =
        [c \in 1..Len(@) |-> IF @[c].value # <<>> THEN [@[c] EXCEPT !.strike = TRUE] ELSE @[c]]]

HandleDelete(acc, row, isRef, ctx) ==
    IF /\ SideStatus(row, ctx.pkColumn, isRef) = "delete"
       /\ DeleteTarget(ctx.rowMap[isRef], LookupPK(row, ctx.pkColumn, isRef)) # NoTarget
    THEN [acc EXCEPT !.wb[isRef] = StrikeRow(@, DeleteTarget(ctx.rowMap[isRef], LookupPK(row, ctx.pkColumn, isRef))),
                     !.deletedCount = @ + 1]
    ELSE acc

SheetIndex(wb, name) ==
    LET named(s) == wb[s].name = name
    IN  FindIndex(Len(wb), named)

\* wb.getWorksheet(name) || wb.addWorksheet(name)
WithSheet(wb, name) == IF SheetIndex(wb, name) # 0 THEN wb ELSE Append(wb, [name |-> name, cells |-> <<>>])

\* sheet.addRow(values)
AddRow(wb, name, values, mark) ==
    [wb EXCEPT ![SheetIndex(wb, name)].cells =
        Append(@, [c \in 1..Len(values) |-> [value |-> values[c], mark |-> mark, strike |-> FALSE]])]

WithHeader(wb, name, titles) ==
    IF wb[SheetIndex(wb, name)].cells = <<>> THEN AddRow(wb, name, titles, "none") ELSE wb

\* the row of the added-items sheet
AddedValues(row, sideColumns, isRef) ==
    [c \in 1..Len(sideColumns) |->
        getEffectiveVal(row, ReplaceFirst(sideColumns[c].id, IF isRef THEN GIJUN ELSE BIGYO), isRef)]

Titles(columns) == [c \in 1..Len(columns) |-> columns[c].title]

HandleAdd(acc, row, isRef, ctx) ==
    IF SideStatus(row, ctx.pkColumn, isRef) = "add"
    THEN [acc EXCEPT !.wb[isRef] = AddRow(WithHeader(WithSheet(@, AddedSheetName), AddedSheetName,
                                                     Titles(SideColumns(ctx.columns, isRef))),
                                          AddedSheetName,
                                          AddedValues(row, SideColumns(ctx.columns, isRef), isRef), "none"),
                     !.addedCount = @ + 1]
    ELSE acc

\* isInternal of processSideUpdates
isInternal(k) ==
    \/ k = <<>> \/ Trim(k) = <<>> \/ StartsWith(k, CHECK)
    \/ k = <<"n", "u", "l", "l">> \/ k = <<"u", "n", "d", "e", "f", "i", "n", "e", "d">>

\* the deep search: the first row of the first worksheet holding the key in one of its cells
DeepSearch(wb, normTarget) ==
    LET holds(s, r) == /\ \E c \in 1..Len(wb[s].cells[r]) : wb[s].cells[r][c].value # <<>>
                       /\ \E c \in 1..Len(wb[s].cells[r]) :
                             /\ c <= ScanLimit
                             /\ normalizeForComparison(getCellValue(wb[s].cells[r][c])) = normTarget
        found(s)    == /\ ~IsInternalSheet(wb[s].name)
                       /\ \E r \in 1..Len(wb[s].cells) : holds(s, r)
        first(s)    == CHOOSE r \in 1..Len(wb[s].cells) : holds(s, r) /\ \A q \in 1..(r - 1) : ~holds(s, q)
    IN  IF FindIndex(Len(wb), found) = 0 THEN NoTarget
        ELSE [sheet |-> FindIndex(Len(wb), found), rowNumber |-> first(FindIndex(Len(wb), found))]

\* the resolution cascade of processSideUpdates
Resolve(rowMap, wb, intKey, lookupKey) ==
    LET normKey  == normalizeForComparison(OrElse(lookupKey, intKey))
        lowerKey == toLowerCase(OrElse(lookupKey, intKey))
        scan(i)  == toLowerCase(rowMap[i].key) = lowerKey \/ normalizeForComparison(rowMap[i].key) = normKey
    IN  IF MapHas(rowMap, intKey) THEN MapGet(rowMap, intKey)
        ELSE IF MapHas(rowMap, normalizeForComparison(intKey)) THEN MapGet(rowMap, normalizeForComparison(intKey))
        ELSE IF MapHas(rowMap, lookupKey) THEN MapGet(rowMap, lookupKey)
        ELSE IF MapHas(rowMap, normalizeForComparison(lookupKey))
        THEN MapGet(rowMap, normalizeForComparison(lookupKey))
        ELSE IF FindIndex(Len(rowMap), scan) # 0 THEN rowMap[FindIndex(Len(rowMap), scan)].value
        ELSE DeepSearch(wb, normKey)

\* diffColumns of a failed row: its keys are column titles
diffColumns(row, sideCols, isRef) ==
    LET differs(c) == /\ sideCols[c].id \notin {IntegratedKeyId, ExistsId, REVIEW_REMARKS}
                      /\ CellStr(row, SideReviewCol(sideCols[c].id, isRef)) # <<>>
                      /\ CellStr(row, SideReviewCol(sideCols[c].id, isRef))
                            # CellStr(row, SideCol(sideCols[c].id, isRef))
        last(t)    == CHOOSE c \in 1..Len(sideCols) :
                         /\ differs(c) /\ sideCols[c].title = t
                         /\ \A d \in (c + 1)..Len(sideCols) : ~(differs(d) /\ sideCols[d].title = t)
    IN  [t \in {sideCols[c].title : c \in {d \in 1..Len(sideCols) : differs(d)}} |->
            CellStr(row, SideReviewCol(sideCols[last(t)].id, isRef))]

\* failureData / checkRowData: logic is 'Mapping Failure Logic', '' when the row has none
CheckRow(row, logic, columns) ==
    [ logic |-> logic, exists |-> row.exists, key |-> row.integratedKey,
      remarks |-> CellStr(row, REVIEW_REMARKS), columns |-> columns ]

CouldNotFind(isRef) ==
    IF isRef THEN <<"Could not find match for Ref key in workbook.">>
    ELSE <<"Could not find match for Comp key in workbook.">>

Failed(acc, row, isRef, ctx) ==
    [acc EXCEPT !.checkRows[isRef] =
                    Append(@, CheckRow(row, CouldNotFind(isRef),
                                        diffColumns(row, SideColumns(ctx.columns, isRef), isRef))),
                !.noTargetRowCount = @ + 1]

\* the comparison without the trim of the cell text
IsDifferent_Untrimmed(cell, reviewValStr) == cell.value # reviewValStr

\* isDifferent: the trimmed cell text against the trimmed review text
IsDifferent(cell, reviewValStr) == Trim(Str(getCellValue(cell))) # reviewValStr

Overwritten(st, isRef, target, colNum, reviewValStr, colTitle, isPK) ==
    [st EXCEPT !.acc.wb[isRef] = PutCell(@, target.sheet, target.rowNumber, colNum,
                                         [value |-> reviewValStr, mark |-> "changed", strike |-> FALSE]),
               !.acc.updatedCount = @ + 1,
               !.acc.tagNoUpdateCount = IF isPK THEN @ + 1 ELSE @,
               !.data = (colTitle :> reviewValStr) @@ @]

Confirmed(st, isRef, target, colNum, cell) ==
    [st EXCEPT !.acc.wb[isRef] = PutCell(@, target.sheet, target.rowNumber, colNum,
                                         [cell EXCEPT !.mark = "confirmed", !.strike = FALSE]),
               !.acc.identicalValueCount = @ + 1]

\* one located cell
ReviewCell(st, isRef, target, colNum, reviewValStr, colTitle, isPK, cell) ==
    IF IsDifferent(cell, reviewValStr)
    THEN Overwritten(st, isRef, target, colNum, reviewValStr, colTitle, isPK)
    ELSE Confirmed(st, isRef, target, colNum, cell)

\* one turn of the loop over the side's review columns
ReviewColumn(st, row, revCol, isRef, target, colNum, pkColumn) ==
    IF Cell(row, revCol.id) = Undefined THEN st
    ELSE IF Trim(Cell(row, revCol.id)) = <<>> THEN [st EXCEPT !.acc.noReviewDataCount = @ + 1]
    ELSE IF colNum = 0 THEN [st EXCEPT !.acc.reviewColsCount = @ + 1]
    ELSE ReviewCell([st EXCEPT !.acc.reviewColsCount = @ + 1], isRef, target, colNum,
                    Trim(Cell(row, revCol.id)),
                    ReplaceFirst(ReplaceFirst(revCol.title, GIJUN \o GEOMTO), BIGYO \o GEOMTO),
                    ReplaceFirst(revCol.id, SideReviewCol(<<>>, isRef)) = pkColumn,
                    GetCell(st.acc.wb[isRef][target.sheet], target.rowNumber, colNum))

RECURSIVE ReviewColumns(_, _, _, _, _, _, _)
ReviewColumns(st, row, sideReviewCols, isRef, target, sheetColMap, pkColumn) ==
    IF sideReviewCols = <<>> THEN st
    ELSE ReviewColumns(ReviewColumn(st, row, Head(sideReviewCols), isRef, target,
                                    findInMap(sheetColMap, ReplaceFirst(Head(sideReviewCols).id,
                                                                        SideReviewCol(<<>>, isRef))),
                                    pkColumn),
                       row, Tail(sideReviewCols), isRef, target, sheetColMap, pkColumn)

SideReviewCols(columns, isRef) ==
    LET review(c) == EndsWith(c.id, SideReviewCol(<<>>, isRef))
    IN  SelectSeq(columns, review)

\* if (hasChanges) push checkRowData
Logged(st, row, isRef) ==
    IF CellStr(row, REVIEW_REMARKS) # <<>> \/ st.data # <<>>
    THEN [st.acc EXCEPT !.checkRows[isRef] = Append(@, CheckRow(row, <<>>, st.data))]
    ELSE st.acc

\* getCachedColMap: the column map of a worksheet as its first use in the run built it
Cached(acc, isRef, s) ==
    IF MapHas(acc.colMaps[isRef], s) THEN acc
    ELSE [acc EXCEPT !.colMaps[isRef] =
            Append(@, [key |-> s, value |-> getColMap(SheetRow(acc.wb[isRef][s], HeaderRowNum),
                                                      Len(SheetRow(acc.wb[isRef][s], HeaderRowNum)))])]

Located(acc, row, isRef, ctx, target) ==
    Logged(ReviewColumns([acc |-> acc, data |-> <<>>], row, SideReviewCols(ctx.columns, isRef), isRef, target,
                         MapGet(acc.colMaps[isRef], target.sheet), ctx.pkColumn),
           row, isRef)

Resolved(acc, row, isRef, ctx, target) ==
    IF target = NoTarget THEN Failed(acc, row, isRef, ctx)
    ELSE Located(Cached(acc, isRef, target.sheet), row, isRef, ctx, target)

\* a cell-update step that returns for a 'delete' marker only
processSideUpdates_UpdatesAdded(acc, row, isRef, ctx) ==
    IF \/ SideStatus(row, ctx.pkColumn, isRef) = "delete"
       \/ (isRef /\ row.exists = "Only Comp")
       \/ (~isRef /\ row.exists = "Only Ref")
       \/ isInternal(LookupPK(row, ctx.pkColumn, isRef))
    THEN acc
    ELSE Resolved(acc, row, isRef, ctx,
                  Resolve(ctx.rowMap[isRef], acc.wb[isRef], row.integratedKey, LookupPK(row, ctx.pkColumn, isRef)))

processSideUpdates(acc, row, isRef, ctx) ==
    IF \/ SideStatus(row, ctx.pkColumn, isRef) # "none"
       \/ (isRef /\ row.exists = "Only Comp")
       \/ (~isRef /\ row.exists = "Only Ref")
       \/ isInternal(LookupPK(row, ctx.pkColumn, isRef))
    THEN acc
    ELSE Resolved(acc, row, isRef, ctx,
                  Resolve(ctx.rowMap[isRef], acc.wb[isRef], row.integratedKey, LookupPK(row, ctx.pkColumn, isRef)))

\* the deletes and the adds of one grid row, in the order of the loop body
HandleStatus(acc, row, ctx) ==
    HandleAdd(HandleAdd(HandleDelete(HandleDelete(acc, row, TRUE, ctx), row, FALSE, ctx), row, TRUE, ctx),
              row, FALSE, ctx)

\* a loop body that leaves the row when its reference side is not located
ProcessRow_LeavesOnFailure(acc, row, ctx) ==
    IF processSideUpdates(HandleStatus(acc, row, ctx), row, TRUE, ctx).noTargetRowCount
          > HandleStatus(acc, row, ctx).noTargetRowCount
    THEN processSideUpdates(HandleStatus(acc, row, ctx), row, TRUE, ctx)
    ELSE processSideUpdates(processSideUpdates(HandleStatus(acc, row, ctx), row, TRUE, ctx), row, FALSE, ctx)

\* one turn of `for (const row of rows)`
ProcessRow(acc, row, ctx) ==
    processSideUpdates(processSideUpdates(HandleStatus(acc, row, ctx), row, TRUE, ctx), row, FALSE, ctx)

\* the loop over the first k grid rows
RECURSIVE ProcessRows(_, _, _, _)
ProcessRows(acc, rows, k, ctx) ==
    IF k = 0 THEN acc ELSE ProcessRow(ProcessRows(acc, rows, k - 1, ctx), rows[k], ctx)

FailureLogic == <<"Mapping Failure Logic">>

\* r[header] of a check row, '' for a key the row lacks
CheckValue(r, header) ==
    IF header = FailureLogic THEN r.logic
    ELSE IF header = <<"TONGHAP", " ", "K", "e", "y">> THEN r.key
    ELSE IF header = <<"GUBUN">> THEN <<r.exists>>
    ELSE IF header = <<"GEOMTO", "UIGYEON">> THEN r.remarks
    ELSE IF header \in DOMAIN r.columns THEN r.columns[header]
    ELSE <<>>

\* activeHeaders: the fixed headers, then the data keys in grid order, empty columns dropped
ActiveHeaders(rowsToDisplay, gridColOrder) ==
    LET fixed      == <<FailureLogic, <<"TONGHAP", " ", "K", "e", "y">>, <<"GUBUN">>, <<"GEOMTO", "UIGYEON">>>>
        dynamic(t) == /\ ~InSeq(t, fixed) /\ t # IntegratedKeyId
                      /\ \E i \in 1..Len(rowsToDisplay) : t \in DOMAIN rowsToDisplay[i].columns
        hasData(h) == \E i \in 1..Len(rowsToDisplay) : Trim(CheckValue(rowsToDisplay[i], h)) # <<>>
    IN  SelectSeq(fixed \o Unique(SelectSeq(gridColOrder, dynamic)), hasData)

RECURSIVE AddRows(_, _, _, _)
AddRows(wb, name, rowsToDisplay, activeHeaders) ==
    IF rowsToDisplay = <<>> THEN wb
    ELSE AddRows(AddRow(wb, name, [h \in 1..Len(activeHeaders) |-> CheckValue(Head(rowsToDisplay), activeHeaders[h])],
                        "none"),
                 name, Tail(rowsToDisplay), activeHeaders)

\* wb.removeWorksheet(existing); wb.addWorksheet('확인사항')
FreshSheet(wb, name) ==
    LET other(sheet) == sheet.name # name
    IN  Append(SelectSeq(wb, other), [name |-> name, cells |-> <<>>])

generateCheckSheet(wb, checkRows, columns) ==
    LET failed(r) == Trim(r.logic) # <<>>
    IN  IF checkRows = <<>> THEN wb
        ELSE IF SelectSeq(checkRows, failed) = <<>> THEN FreshSheet(wb, CheckSheetName)
        ELSE AddRows(AddRow(FreshSheet(wb, CheckSheetName), CheckSheetName,
                            ActiveHeaders(SelectSeq(checkRows, failed), Titles(columns)), "header"),
                     CheckSheetName, SelectSeq(checkRows, failed),
                     ActiveHeaders(SelectSeq(checkRows, failed), Titles(columns)))

\* the accumulators as the run starts
StartOfRun(refWb, compWb) ==
    [ wb |-> [isRef \in BOOLEAN |-> IF isRef THEN refWb ELSE compWb],
      colMaps |-> [isRef \in BOOLEAN |-> <<>>],
      checkRows |-> [isRef \in BOOLEAN |-> <<>>],
      updatedCount |-> 0, tagNoUpdateCount |-> 0, deletedCount |-> 0, addedCount |-> 0,
      noTargetRowCount |-> 0, noReviewDataCount |-> 0, identicalValueCount |-> 0, reviewColsCount |-> 0 ]

\* what the loop reads but never changes: the grid columns and the two row maps
RunContext(refWb, compWb, columns, pkColumn, refSheetName, compSheetName) ==
    [ pkColumn |-> pkColumn, columns |-> columns,
      rowMap |-> [isRef \in BOOLEAN |->
                     IF isRef THEN getRowMap(refWb, pkColumn, HeaderRowNum, refSheetName)
                     ELSE getRowMap(compWb, pkColumn, HeaderRowNum, compSheetName)] ]

\* a cell ExcelJS cannot load: a shared formula whose master is missing
SharedFormula == <<"<shared formula>">>

\* wb.xlsx.load(buffer) throws 'Shared Formula master must exist ...'
LoadFails(wb) ==
    \E s \in 1..Len(wb) : \E r \in 1..Len(wb[s].cells) : \E c \in 1..Len(wb[s].cells[r]) :
        wb[s].cells[r][c].value = SharedFormula

\* return { updatedCount: 0 } of an abandoned run: the documents stay as they are
Abandoned(refWb, compWb, notice) ==
    [ completed |-> FALSE, notice |-> notice, refWb |-> refWb, compWb |-> compWb, updatedCount |-> 0,
      noTargetRowCount |-> 0, ignoredDelAddCount |-> 0, identicalValueCount |-> 0, noReviewDataCount |-> 0 ]

\* the check sheets, the two documents and the counts of a run that went through
Completed(acc, columns) ==
    [ completed |-> TRUE, notice |-> "summary",
      refWb |-> generateCheckSheet(acc.wb[TRUE], acc.checkRows[TRUE], columns),
      compWb |-> generateCheckSheet(acc.wb[FALSE], acc.checkRows[FALSE], columns),
      updatedCount |-> acc.updatedCount, noTargetRowCount |-> acc.noTargetRowCount,
      ignoredDelAddCount |-> acc.deletedCount + acc.addedCount,
      identicalValueCount |-> acc.identicalValueCount, noReviewDataCount |-> acc.noReviewDataCount ]

Ran(refWb, compWb, rows, columns, ctx) ==
    IF ctx.rowMap[TRUE] = <<>> \/ ctx.rowMap[FALSE] = <<>> THEN Abandoned(refWb, compWb, "noIdentities")
    ELSE Completed(ProcessRows(StartOfRun(refWb, compWb), rows, Len(rows), ctx), columns)

applyAnalysisEngineChanges_LoadsAnyway(refWb, compWb, rows, columns, pkColumn, refSheetName, compSheetName) ==
    IF refWb = <<>> \/ compWb = <<>> THEN Abandoned(refWb, compWb, "noSheet")
    ELSE Ran(refWb, compWb, rows, columns,
             RunContext(refWb, compWb, columns, pkColumn, refSheetName, compSheetName))

applyAnalysisEngineChanges(refWb, compWb, rows, columns, pkColumn, refSheetName, compSheetName) ==
    IF LoadFails(refWb) THEN Abandoned(refWb, compWb, "refFormula")
    ELSE IF LoadFails(compWb) THEN Abandoned(refWb, compWb, "compFormula")
    ELSE IF refWb = <<>> \/ compWb = <<>> THEN Abandoned(refWb, compWb, "noSheet")
    ELSE Ran(refWb, compWb, rows, columns,
             RunContext(refWb, compWb, columns, pkColumn, refSheetName, compSheetName))

\* ------------------------------------------------------------ input domains
T == <<"T">>

S == <<"S">>

D == <<"D">>

K1 == <<"0", "-", "1">>

K2 == <<"0", "-", "2">>

K1x == <<"0", "-", "1", ":", ":", "x">>

RowA == << <<T, K1>>, <<S, <<"p">>>>, <<D, <<"a">>>> >>

RowB == << <<T, <<" ", "0", "-", "1", ":", ":", "x", "\t">>>>, <<S, <<"p", ":", ":", "x">>>>, <<D, <<"a">>>>, <<D \o GEOMTO, <<"b">>>> >>

RowC == << <<T, <<"X", "-", "2">>>>, <<S, <<"p">>>>, <<D, <<"A">>>> >>

RowF == << <<T, <<>>>>, <<T \o GEOMTO, K2>>, <<D, <<"a">>>> >>

RawRows == {RowA, RowB, RowC, RowF}

MaxRows == 2

RECURSIVE SeqsUpTo(_, _)
SeqsUpTo(set, n) ==
    IF n = 0 THEN {<<>>}
    ELSE LET shorter == SeqsUpTo(set, n - 1)
         IN  shorter \cup {Append(q, x) : q \in {r \in shorter : Len(r) = n - 1}, x \in set}

Datasets == SeqsUpTo(RawRows, MaxRows)

\* rows of a resumed session, whose identity column carries the side suffix:
\* RowG has a blank identity and the identity '0-2' in its review column,
\* RowH has the identity '0-2'
TG == T \o GIJUN

RowG == << <<TG, <<>>>>, <<TG \o GEOMTO, K2>>, <<D, <<"a">>>> >>

RowH == << <<TG, K2>>, <<D, <<"a">>>> >>

ResumedDatasets == SeqsUpTo({RowG, RowH}, MaxRows)

PKMapping == [refColumn |-> T, compColumn |-> T, isTarget |-> TRUE, isPK |-> TRUE, isSK |-> FALSE]

SKMapping == [refColumn |-> S, compColumn |-> S, isTarget |-> TRUE, isPK |-> FALSE, isSK |-> TRUE]

DMapping == [refColumn |-> D, compColumn |-> D, isTarget |-> TRUE, isPK |-> FALSE, isSK |-> FALSE]

ConfigPK ==
    [ pkColumn |-> T, skColumn |-> <<>>, mappings |-> <<PKMapping, DMapping>>, exclusionRules |-> <<>>,
      pkExclusion |-> DefaultPkExclusion, columnExclusion |-> DefaultColumnExclusion ]

ConfigSK ==
    [ pkColumn |-> T, skColumn |-> S, mappings |-> <<PKMapping, SKMapping, DMapping>>, exclusionRules |-> <<>>,
      pkExclusion |-> DefaultPkExclusion, columnExclusion |-> DefaultColumnExclusion ]

\* the identity exclusion of the settings screen with two custom patterns: a
\* regular expression and a plain text
ExcludingPatterns == << <<"/", "^", "x", "/">>, <<":", ":", "X">> >>

ConfigExcluding == [ConfigSK EXCEPT !.pkExclusion.customPatterns = ExcludingPatterns]

Configs == {ConfigPK, ConfigSK, ConfigExcluding}

\* the configuration of the resumed session, with the empty check switched off
ConfigResumed ==
    [ pkColumn |-> TG, skColumn |-> <<>>,
      mappings |-> << [refColumn |-> TG, compColumn |-> TG, isTarget |-> TRUE, isPK |-> TRUE, isSK |-> FALSE],
                      DMapping >>,
      exclusionRules |-> <<>>,
      pkExclusion |-> [excludeStartAlpha |-> FALSE, excludeEmpty |-> FALSE, customPatterns |-> <<>>],
      columnExclusion |-> DefaultColumnExclusion ]

\* the sheets a workbook of the store can hold
NOTE == <<"N", ":", "B">>

K1z == <<"0", "-", "1", ":", ":", "z">>

S1 == << <<T, K1>>, <<S, <<"p">>>>, <<D, <<"a">>>>, <<D \o GEOMTO, <<"a", "b">>>> >>

S2 == << <<T, K2>>, <<T \o GEOMTO, K1z>>, <<S, <<"q">>>>, <<D, <<"b">>>>, <<D \o GEOMTO, <<"a">>>>, <<NOTE, <<"n">>>> >>

SheetA ==
    [ loaded |-> TRUE, data |-> <<S1, S2>>, columns |-> <<T, S, D, NOTE>>,
      comments |-> (<<1, 3>> :> <<"m1">>) @@ (<<2, 3>> :> <<"m2">>) @@ (<<2, 4>> :> <<"m3">>) ]

SheetB ==
    [ loaded |-> TRUE, data |-> <<S1>>, columns |-> <<T, S, D>>,
      comments |-> (<<1, 3>> :> <<"m1">>) ]

RefSheets == {SheetA}

CompSheets == {SheetA, SheetB}

OnlySuffix == <<":", ":", "z">>

EditValues == {K1, K1z, OnlySuffix}

EditColumns == {RefReviewCol(T)}

MemoColumns == {RefCol(D)}

MemoTexts == {<<"m2">>}

ChecklistPKs == {<<>>}

PasteValues == {K1}

ChecklistRemarks == {<<"r">>}

MaxOps == 3

MaxNow == 1

\* the documents and the reviewed grids of the commit engine
RowD == << <<T, K2>>, <<S, <<"q">>>>, <<D, <<" ", "b">>>> >>

CommitData == <<RowA, RowD>>

SheetName == <<"Sheet1">>

\* the one-sheet document a parsed dataset was read from: header row, then the rows
DocumentOf(data) ==
    << [ name  |-> SheetName,
         cells |-> << [c \in 1..Len(data[1]) |-> [value |-> data[1][c][1], mark |-> "none", strike |-> FALSE]] >>
                   \o [r \in 1..Len(data) |->
                          [c \in 1..Len(data[r]) |-> [value |-> data[r][c][2], mark |-> "none", strike |-> FALSE]]] ] >>

Documents == {DocumentOf(CommitData), DocumentOf(<<RowA>>)}

CommitWorkbook == [loaded |-> TRUE, data |-> CommitData, columns |-> <<T, S, D>>, comments |-> <<>>]

DataReviews == {<<"a">>, <<"b">>}

OptionalReviews == {<<>>, <<"a">>}

IdentityReviews == {<<>>, <<"0", "-", "9">>, <<"d", "e", "l", "e", "t", "e">>}

AddReviews == {<<>>, <<"a", "d", "d">>}

RemarkReviews == {<<>>, <<"r">>}

\* the grid after the reviewer's edits of the review cells
ReviewedGrid(base, d1, d2, c2, t2, a1, remark) ==
    setCellValuesBatch(base, << [rowIdx |-> 1, colId |-> RefReviewCol(D), value |-> d1],
                                [rowIdx |-> 2, colId |-> RefReviewCol(D), value |-> d2],
                                [rowIdx |-> 2, colId |-> CompReviewCol(D), value |-> c2],
                                [rowIdx |-> 2, colId |-> RefReviewCol(T), value |-> t2],
                                [rowIdx |-> 1, colId |-> CompReviewCol(T), value |-> a1],
                                [rowIdx |-> 2, colId |-> REVIEW_REMARKS, value |-> remark] >>)

ReviewedGrids ==
    { ReviewedGrid(compareDatasets(CommitData, CommitData, ConfigPK, TRUE), d1, d2, c2, t2, a1, remark) :
        d1 \in OptionalReviews, d2 \in DataReviews, c2 \in OptionalReviews, t2 \in IdentityReviews,
        a1 \in AddReviews, remark \in RemarkReviews }

\* a few of the reviewed grids
FlightGrids ==
    { ReviewedGrid(compareDatasets(CommitData, CommitData, ConfigPK, TRUE), d1, <<"b">>, <<>>, <<>>, a1, <<>>) :
        d1 \in OptionalReviews, a1 \in AddReviews }

\* a comparison dataset whose first row carries a '::' suffix on the identity
\* of RowA, which it also holds: the matcher pairs the reference RowA with the
\* suffixed row and reports the plain one as Only Comp
RowE == << <<T, K1x>>, <<S, <<"q">>>>, <<D, <<"c">>>> >>

SuffixedData == <<RowE, RowA>>

SuffixedWorkbook == [loaded |-> TRUE, data |-> SuffixedData, columns |-> <<T, S, D>>, comments |-> <<>>]

SuffixedGrids ==
    { setCellValuesBatch(compareDatasets(CommitData, SuffixedData, ConfigPK, TRUE),
                         << [rowIdx |-> 1, colId |-> CompReviewCol(D), value |-> c1] >>) : c1 \in DataReviews }

\* a reference or a comparison document with a shared formula in a data cell
UnsupportedDocument == DocumentOf(<<RowA, << <<T, K2>>, <<S, <<"q">>>>, <<D, SharedFormula>> >> >>)

UnsupportedPairs ==
    { <<UnsupportedDocument, DocumentOf(CommitData)>>, <<DocumentOf(CommitData), UnsupportedDocument>>,
      <<UnsupportedDocument, UnsupportedDocument>> }

\* a reference document whose sheet holds the rows of CommitData without the
\* column D: its header row resolves T and S only
NarrowData == << << <<T, K1>>, <<S, <<"p">>>> >>, << <<T, K2>>, <<S, <<"q">>>> >> >>

NarrowDocument == DocumentOf(NarrowData)

MaxRuns == 2

\* the cell values isValuesMatch is given: null, texts, numerals with and
\* without thousands separators, fractions and signs
CellValues ==
    { Undefined, <<>>, <<" ", "F", "o", "o", " ">>, <<"f", "o", "o">>, <<"A">>, <<"B">>,
      <<"1", ",", "0", "0", "0">>, <<"1", "0", "0", "0">>, <<"1">>, <<"1", ".", "0">>, <<"0">>, <<"-", "0">>,
      <<",">>, <<",", ",">>, <<"1", "a">> }

\* ------------------------------------------------------------------- state
\* the matcher on its own inputs
VARIABLES mRef, mComp, mConfig, mB1, mDone, mOut

\* the store: workbooks, mapping configuration, grid rows, memos; `now` is the
\* clock Date.now() reads, `ops` counts the operations since the rows were
\* last computed, justApplied tells that the last call was
\* applyReviewCompensation and applied is what it returned
VARIABLES refWorkbook, compWorkbook, mappings, pkColumn, skColumn, rows, memos, now, ops, justApplied, applied

\* the commit engine: the two documents on disk, the number of runs so far,
\* what the last run returned and the alert it ended with
VARIABLES refFile, compFile, runs, lastRun, notice

\* the value comparison on its own inputs: two cell values, whether
\* isValuesMatch was called and what it returned
VARIABLES valA, valB, valDone, valMatch

matchVars == <<mRef, mComp, mConfig, mB1, mDone, mOut>>

storeVars == <<refWorkbook, compWorkbook, mappings, pkColumn, skColumn, rows, memos, now, ops, justApplied, applied>>

commitVars == <<refFile, compFile, runs, lastRun, notice>>

valueVars == <<valA, valB, valDone, valMatch>>

\* the commit runs the button has started, each with its position between the
\* awaits of applyAnalysisEngineChanges
VARIABLES flights

flightVars == <<flights>>

\* the settings of the mapping screen the matcher reads, the snapshot of the
\* last analysis, the screen shown, and (for the record only) the inputs the
\* matcher was last run with
VARIABLES pkExclusion, columnExclusion, lastRunConfig, view, ranWith

\* the per-column summary of the store and the error it shows, "" for none
VARIABLES detailedSummary, error

analysisVars == <<pkExclusion, columnExclusion, lastRunConfig, view, ranWith, detailedSummary, error>>

vars == <<matchVars, storeVars, commitVars, valueVars, flightVars, analysisVars>>

\* ------------------------------------------------ the per-column summary
\* the entry of one target mapping; bothStatuses are the statuses of
\* bothRows, wasExcluded is false where the code has no such test
ColumnSummary(m, stRows, bothStatuses, wasExcluded) ==
    LET with(statuses) == {i \in 1..Len(stRows) : stRows[i].exists \in statuses}
        refVal(i)  == CellStr(stRows[i], RefCol(m.refColumn)) # <<>>
        compVal(i) == CellStr(stRows[i], CompCol(m.refColumn)) # <<>>
        same(i)    == isValuesMatch(Cell(stRows[i], RefCol(m.refColumn)), Cell(stRows[i], CompCol(m.refColumn)))
        isKey      == m.isPK \/ m.isSK
        mismatchCount  == IF isKey THEN 0 ELSE Cardinality({i \in with(bothStatuses) : ~same(i)})
        onlyRefWithVal  == Cardinality({i \in with({"Only Ref"}) : refVal(i)})
        onlyCompWithVal == Cardinality({i \in with({"Only Comp"}) : compVal(i)})
    IN  [ columnName    |-> m.refColumn,
          refRowCount   |-> Cardinality({i \in with(bothStatuses \cup {"Only Ref"}) : refVal(i)}),
          compRowCount  |-> Cardinality({i \in with(bothStatuses \cup {"Only Comp"}) : compVal(i)}),
          sameCount     |-> IF isKey THEN Cardinality(with(bothStatuses))
                            ELSE Cardinality({i \in with(bothStatuses) : same(i)}),
          diffCount     |-> mismatchCount + onlyCompWithVal + onlyRefWithVal,
          onlyRefCount  |-> onlyRefWithVal,
          onlyCompCount |-> onlyCompWithVal,
          status        |-> IF wasExcluded THEN "excluded by rule"
                            ELSE IF mismatchCount > 0 THEN "value mismatch" ELSE "" ]

\* effectiveMappings.filter(m => m.isTarget)
Targets(effectiveMappings) ==
    LET isTarget(m) == m.isTarget
    IN  SelectSeq(effectiveMappings, isTarget)

\* !filterMappings([m], columnExclusion).some(em => em.refColumn === m.refColumn)
WasExcluded(m, stColumnExclusion) ==
    ~\E k \in 1..Len(filterMappings(<<m>>, stColumnExclusion)) :
        filterMappings(<<m>>, stColumnExclusion)[k].refColumn = m.refColumn

\* detailedSummary of runComparison: the targets among the effective
\* mappings, each tested once more against the column exclusion
RunSummary(results, stMappings, stColumnExclusion) ==
    [k \in 1..Len(Targets(EffectiveMappings(stMappings, stColumnExclusion))) |->
        ColumnSummary(Targets(EffectiveMappings(stMappings, stColumnExclusion))[k], results, {"Both"},
                      WasExcluded(Targets(EffectiveMappings(stMappings, stColumnExclusion))[k], stColumnExclusion))]

\* detailedSummary of recalculateSummary
recalculateSummary(stRows, stMappings, stColumnExclusion) ==
    [k \in 1..Len(Targets(EffectiveMappings(stMappings, stColumnExclusion))) |->
        ColumnSummary(Targets(EffectiveMappings(stMappings, stColumnExclusion))[k], stRows, {"Both", "Both(M)"},
                      FALSE)]

\* detailedSummary of importProject: every target of the saved mappings
ImportedSummary(restoredRows, stMappings, pk, sk, stColumnExclusion) ==
    [k \in 1..Len(Targets(stMappings)) |->
        ColumnSummary([Targets(stMappings)[k] EXCEPT !.isPK = Targets(stMappings)[k].refColumn = pk,
                                                     !.isSK = Targets(stMappings)[k].refColumn = sk],
                      restoredRows, {"Both"}, WasExcluded(Targets(stMappings)[k], stColumnExclusion))]

NoRun ==
    [ completed |-> FALSE, updatedCount |-> 0, noTargetRowCount |-> 0, ignoredDelAddCount |-> 0,
      identicalValueCount |-> 0, noReviewDataCount |-> 0 ]

\* no document is on disk and no run was made
NoCommit ==
    /\ refFile = <<>>
    /\ compFile = <<>>
    /\ runs = 0
    /\ lastRun = NoRun
    /\ notice = "none"

\* the button was never clicked
NoFlights == flights = <<>>

\* lastRunConfig: null
NoSnapshot == [null |-> TRUE]

\* the matcher was never run
NoInputs == [never |-> TRUE]

\* the settings as the store is constructed, before any analysis
NoAnalysis ==
    /\ pkExclusion = DefaultPkExclusion
    /\ columnExclusion = DefaultColumnExclusion
    /\ lastRunConfig = NoSnapshot
    /\ view = "setup"
    /\ ranWith = NoInputs
    /\ detailedSummary = <<>>
    /\ error = ""

\* no value comparison is under way
NoValues ==
    /\ valA = <<>>
    /\ valB = <<>>
    /\ valDone = FALSE
    /\ valMatch = FALSE

\* the store as create() leaves it
StoreConstructed ==
    /\ refWorkbook = NoWorkbook
    /\ compWorkbook = NoWorkbook
    /\ mappings = <<>>
    /\ pkColumn = <<>>
    /\ skColumn = <<>>
    /\ rows = <<>>
    /\ memos = <<>>
    /\ now = 0
    /\ ops = 0
    /\ justApplied = FALSE
    /\ applied = 0

MatcherIdle ==
    /\ mRef = <<>>
    /\ mComp = <<>>
    /\ mConfig = ConfigPK
    /\ mB1 = TRUE
    /\ mDone = FALSE
    /\ mOut = <<>>

\* ------------------------------------------------ the matcher on its inputs
InitMatch ==
    /\ \/ /\ mRef \in Datasets
          /\ mComp \in Datasets
          /\ mConfig \in Configs
       \/ /\ mRef \in ResumedDatasets
          /\ mComp \in ResumedDatasets
          /\ mConfig = ConfigResumed
    /\ mB1 \in BOOLEAN
    /\ mDone = FALSE
    /\ mOut = <<>>
    /\ StoreConstructed
    /\ NoCommit
    /\ NoValues
    /\ NoFlights
    /\ NoAnalysis

Compare ==
    /\ ~mDone
    /\ mDone' = TRUE
    /\ mOut' = compareDatasets(mRef, mComp, mConfig, mB1)
    /\ UNCHANGED <<mRef, mComp, mConfig, mB1>>
    /\ UNCHANGED storeVars
    /\ UNCHANGED commitVars
    /\ UNCHANGED valueVars
    /\ UNCHANGED analysisVars
    /\ UNCHANGED flightVars

NextMatch == Compare

SpecMatch == InitMatch /\ [][NextMatch]_vars

\* ------------------------------------------------------ the store's actions
InitStore == MatcherIdle /\ StoreConstructed /\ NoCommit /\ NoValues /\ NoFlights /\ NoAnalysis

SetWorkbooks ==
    /\ \E ref \in RefSheets, comp \in CompSheets :
          /\ refWorkbook' = ref
          /\ compWorkbook' = comp
    /\ mappings' = <<>>
    /\ pkColumn' = <<>>
    /\ skColumn' = <<>>
    /\ rows' = <<>>
    /\ memos' = <<>>
    /\ detailedSummary' = <<>>
    /\ view' = "mapping"
    /\ ops' = 0
    /\ justApplied' = FALSE
    /\ UNCHANGED <<now, applied>>
    /\ UNCHANGED matchVars
    /\ UNCHANGED commitVars
    /\ UNCHANGED valueVars
    /\ UNCHANGED <<pkExclusion, columnExclusion, lastRunConfig, ranWith, error>>
    /\ UNCHANGED flightVars

\* the mapping screen: setMappings, setPKColumn, setSKColumn
SetMappingConfig ==
    /\ \E cfg \in Configs :
          /\ mappings' = cfg.mappings
          /\ pkColumn' = cfg.pkColumn
          /\ skColumn' = cfg.skColumn
    /\ justApplied' = FALSE
    /\ UNCHANGED <<refWorkbook, compWorkbook, rows, memos, now, ops, applied>>
    /\ UNCHANGED matchVars
    /\ UNCHANGED commitVars
    /\ UNCHANGED valueVars
    /\ UNCHANGED analysisVars
    /\ UNCHANGED flightVars

\* runComparison(mappings, pkColumn, skColumn) as the mapping screen calls it;
\* without both workbooks it throws before any row is touched
RunComparison ==
    /\ refWorkbook.loaded /\ compWorkbook.loaded
    /\ pkColumn # <<>>
    /\ rows' = compareDatasets(refWorkbook.data, compWorkbook.data, StoreConfig(mappings, pkColumn, skColumn), TRUE)
    /\ memos' = CommentMemos(refWorkbook, compWorkbook, rows', pkColumn, skColumn)
    /\ detailedSummary' = recalculateSummary(rows', mappings, columnExclusion)
    /\ view' = "grid"
    /\ ops' = 0
    /\ justApplied' = FALSE
    /\ UNCHANGED <<refWorkbook, compWorkbook, mappings, pkColumn, skColumn, now, applied>>
    /\ UNCHANGED matchVars
    /\ UNCHANGED commitVars
    /\ UNCHANGED valueVars
    /\ UNCHANGED <<pkExclusion, columnExclusion, lastRunConfig, ranWith, error>>
    /\ UNCHANGED flightVars

SetCellValue ==
    /\ ops < MaxOps
    /\ \E rowIdx \in 1..Len(rows), colId \in EditColumns, value \in EditValues :
          rows' = setCellValue(rows, rowIdx, colId, value)
    /\ ops' = ops + 1
    /\ justApplied' = FALSE
    /\ UNCHANGED <<refWorkbook, compWorkbook, mappings, pkColumn, skColumn, memos, now, applied>>
    /\ UNCHANGED matchVars
    /\ UNCHANGED commitVars
    /\ UNCHANGED valueVars
    /\ UNCHANGED analysisVars
    /\ UNCHANGED flightVars

\* one paste over both identity review cells of a row
SetCellValuesBatch ==
    /\ ops < MaxOps
    /\ \E rowIdx \in 1..Len(rows), value \in PasteValues :
          rows' = setCellValuesBatch(rows, << [rowIdx |-> rowIdx, colId |-> RefReviewCol(T), value |-> value],
                                              [rowIdx |-> rowIdx, colId |-> CompReviewCol(T), value |-> value] >>)
    /\ ops' = ops + 1
    /\ justApplied' = FALSE
    /\ UNCHANGED <<refWorkbook, compWorkbook, mappings, pkColumn, skColumn, memos, now, applied>>
    /\ UNCHANGED matchVars
    /\ UNCHANGED commitVars
    /\ UNCHANGED valueVars
    /\ UNCHANGED analysisVars
    /\ UNCHANGED flightVars

SetMemo ==
    /\ ops < MaxOps
    /\ \E rowIdx \in 1..Len(rows), colId \in MemoColumns, text \in MemoTexts :
          memos' = setMemo(memos, rows[rowIdx].integratedKey, colId, text)
    /\ ops' = ops + 1
    /\ justApplied' = FALSE
    /\ UNCHANGED <<refWorkbook, compWorkbook, mappings, pkColumn, skColumn, rows, now, applied>>
    /\ UNCHANGED matchVars
    /\ UNCHANGED commitVars
    /\ UNCHANGED valueVars
    /\ UNCHANGED analysisVars
    /\ UNCHANGED flightVars

\* selectedRowIndex is the row the user has selected (here the last one), 0 when none
AddChecklistItem ==
    /\ ops < MaxOps
    /\ \E t \in {now, now + 1} :
          /\ t <= MaxNow
          /\ now' = t
          /\ \E pk \in ChecklistPKs, remarks \in ChecklistRemarks, selectedRowIndex \in {0, Len(rows)} :
                rows' = addChecklistItem(rows, pk, remarks, pkColumn, selectedRowIndex,
                                         applyFiltersAndSort(rows, "All"), t)
    /\ ops' = ops + 1
    /\ justApplied' = FALSE
    /\ UNCHANGED <<refWorkbook, compWorkbook, mappings, pkColumn, skColumn, memos, applied>>
    /\ UNCHANGED matchVars
    /\ UNCHANGED commitVars
    /\ UNCHANGED valueVars
    /\ UNCHANGED analysisVars
    /\ UNCHANGED flightVars

\* handleDeleteRow: the row under the context menu, only when its key starts
\* with 'CHECK-' (rows of the source files are never removed)
DeleteRow ==
    /\ ops < MaxOps
    /\ \E rowIdx \in 1..Len(rows) :
          /\ StartsWith(rows[rowIdx].integratedKey, CHECK)
          /\ rows' = deleteRow(rows, memos, rows[rowIdx].integratedKey).rows
          /\ memos' = deleteRow(rows, memos, rows[rowIdx].integratedKey).memos
    /\ ops' = ops + 1
    /\ justApplied' = FALSE
    /\ UNCHANGED <<refWorkbook, compWorkbook, mappings, pkColumn, skColumn, now, applied>>
    /\ UNCHANGED matchVars
    /\ UNCHANGED commitVars
    /\ UNCHANGED valueVars
    /\ UNCHANGED analysisVars
    /\ UNCHANGED flightVars

Becomes(out) ==
    /\ rows' = out.rows
    /\ memos' = out.memos
    /\ applied' = out.applied

ApplyReviewCompensation ==
    /\ ops < MaxOps
    /\ Becomes(applyReviewCompensation(rows, memos, PkRefReviewCol(mappings, pkColumn),
                                       PkCompReviewCol(mappings, pkColumn)))
    /\ detailedSummary' = recalculateSummary(rows', mappings, columnExclusion)
    /\ ops' = ops + 1
    /\ justApplied' = TRUE
    /\ UNCHANGED <<refWorkbook, compWorkbook, mappings, pkColumn, skColumn, now>>
    /\ UNCHANGED matchVars
    /\ UNCHANGED commitVars
    /\ UNCHANGED valueVars
    /\ UNCHANGED <<pkExclusion, columnExclusion, lastRunConfig, view, ranWith, error>>
    /\ UNCHANGED flightVars

NextStore ==
    \/ SetWorkbooks
    \/ SetMappingConfig
    \/ RunComparison
    \/ SetCellValue
    \/ SetCellValuesBatch
    \/ SetMemo
    \/ AddChecklistItem
    \/ DeleteRow
    \/ ApplyReviewCompensation

SpecStore == InitStore /\ [][NextStore]_vars

\* ------------------------------------------------------- the commit engine
\* two documents on disk, their data loaded and compared, the grid reviewed
InitCommit ==
    /\ MatcherIdle
    /\ refWorkbook = CommitWorkbook
    /\ mappings = ConfigPK.mappings
    /\ pkColumn = ConfigPK.pkColumn
    /\ skColumn = <<>>
    /\ \/ /\ compWorkbook = CommitWorkbook
          /\ rows \in ReviewedGrids
          /\ refFile \in Documents
          /\ compFile \in Documents
       \/ /\ compWorkbook = SuffixedWorkbook
          /\ rows \in SuffixedGrids
          /\ refFile = DocumentOf(CommitData)
          /\ compFile = DocumentOf(SuffixedData)
       \/ /\ compWorkbook = CommitWorkbook
          /\ rows \in FlightGrids
          /\ \E pair \in UnsupportedPairs : refFile = pair[1] /\ compFile = pair[2]
       \/ /\ compWorkbook = CommitWorkbook
          /\ rows \in FlightGrids
          /\ refFile = NarrowDocument
          /\ compFile = DocumentOf(CommitData)
    /\ memos = <<>>
    /\ now = 0
    /\ ops = 0
    /\ justApplied = FALSE
    /\ applied = 0
    /\ runs = 0
    /\ lastRun = NoRun
    /\ notice = "none"
    /\ NoValues
    /\ NoFlights
    /\ NoAnalysis

\* what a run leaves behind.  io is what the user and the file system let
\* happen: "written" (both documents are read and saved), "failed" (a
\* document cannot be read or the reference document cannot be written:
\* nothing is saved) or "compLocked" (the reference document is saved, the
\* comparison document is held by another program). A confirmation the user
\* declines returns before anything is read and leaves every variable as it
\* is: it is a stuttering step.
Outcomes == {"written", "failed", "compLocked"}

Persisted_RollsBack(out, io) ==
    /\ refFile' = IF out.completed /\ io = "written" THEN out.refWb ELSE refFile
    /\ compFile' = IF out.completed /\ io = "written" THEN out.compWb ELSE compFile
    /\ lastRun' = IF out.completed /\ io = "written"
                  THEN [ completed |-> TRUE, updatedCount |-> out.updatedCount,
                         noTargetRowCount |-> out.noTargetRowCount,
                         ignoredDelAddCount |-> out.ignoredDelAddCount,
                         identicalValueCount |-> out.identicalValueCount,
                         noReviewDataCount |-> out.noReviewDataCount ]
                  ELSE NoRun
    /\ notice' = IF io = "failed" THEN "error"
                 ELSE IF out.completed /\ io = "compLocked" THEN "compLocked"
                 ELSE out.notice

Persisted(out, io) ==
    /\ refFile' = IF out.completed /\ io \in {"written", "compLocked"} THEN out.refWb ELSE refFile
    /\ compFile' = IF out.completed /\ io = "written" THEN out.compWb ELSE compFile
    /\ lastRun' = IF out.completed /\ io = "written"
                  THEN [ completed |-> TRUE, updatedCount |-> out.updatedCount,
                         noTargetRowCount |-> out.noTargetRowCount,
                         ignoredDelAddCount |-> out.ignoredDelAddCount,
                         identicalValueCount |-> out.identicalValueCount,
                         noReviewDataCount |-> out.noReviewDataCount ]
                  ELSE NoRun
    /\ notice' = IF io = "failed" THEN "error"
                 ELSE IF out.completed /\ io = "compLocked" THEN "compLocked"
                 ELSE out.notice

\* mutant: the run clears the review cells of the grid once it has applied them
ApplyAnalysisEngineChanges_ClearsReviews ==
    /\ runs < MaxRuns
    /\ LET out == applyAnalysisEngineChanges(refFile, compFile, rows,
                                             GridColumns(EffectiveMappings(mappings, DefaultColumnExclusion),
                                                         pkColumn),
                                             pkColumn, SheetName, SheetName)
       IN  \E io \in Outcomes : Persisted(out, io)
    /\ runs' = runs + 1
    /\ rows' = [k \in DOMAIN rows |->
                  [rows[k] EXCEPT !.cells = [c \in DOMAIN @ |-> IF EndsWith(c, GEOMTO) THEN <<>> ELSE @[c]]]]
    /\ UNCHANGED <<refWorkbook, compWorkbook, mappings, pkColumn, skColumn, memos, now, ops, justApplied, applied>>
    /\ UNCHANGED matchVars
    /\ UNCHANGED valueVars
    /\ UNCHANGED analysisVars
    /\ UNCHANGED flightVars

ApplyAnalysisEngineChanges ==
    /\ runs < MaxRuns
    /\ LET out == applyAnalysisEngineChanges(refFile, compFile, rows,
                                             GridColumns(EffectiveMappings(mappings, DefaultColumnExclusion),
                                                         pkColumn),
                                             pkColumn, SheetName, SheetName)
       IN  \E io \in Outcomes : Persisted(out, io)
    /\ runs' = runs + 1
    /\ UNCHANGED storeVars
    /\ UNCHANGED matchVars
    /\ UNCHANGED valueVars
    /\ UNCHANGED analysisVars
    /\ UNCHANGED flightVars

NextCommit == ApplyAnalysisEngineChanges

SpecCommit == InitCommit /\ [][NextCommit]_vars

\* ------------------------------------------------- the value comparison
InitValues ==
    /\ MatcherIdle
    /\ StoreConstructed
    /\ NoCommit
    /\ valA \in CellValues
    /\ valB \in CellValues
    /\ valDone = FALSE
    /\ valMatch = FALSE
    /\ NoFlights
    /\ NoAnalysis

IsValuesMatch ==
    /\ ~valDone
    /\ valDone' = TRUE
    /\ valMatch' = isValuesMatch(valA, valB)
    /\ UNCHANGED <<valA, valB>>
    /\ UNCHANGED matchVars
    /\ UNCHANGED storeVars
    /\ UNCHANGED commitVars
    /\ UNCHANGED flightVars
    /\ UNCHANGED analysisVars

NextValues == IsValuesMatch

SpecValues == InitValues /\ [][NextValues]_vars

\* ----------------------------------------------- the commit button and its runs
\* Each click of the button starts applyAnalysisEngineChanges as a promise; the
\* run gives the event loop back at every await. The steps below are the
\* stretches between the awaits that touch the files: the two reads and the
\* two writes. Loading, walking the rows and serialising work on the buffers
\* of the run alone and are taken with the write of the reference document.
MaxFlights == 2

InitFlight ==
    /\ MatcherIdle
    /\ refWorkbook = CommitWorkbook
    /\ compWorkbook = CommitWorkbook
    /\ mappings = ConfigPK.mappings
    /\ pkColumn = ConfigPK.pkColumn
    /\ skColumn = <<>>
    /\ rows \in FlightGrids
    /\ memos = <<>>
    /\ now = 0
    /\ ops = 0
    /\ justApplied = FALSE
    /\ applied = 0
    /\ refFile \in Documents
    /\ compFile = DocumentOf(CommitData)
    /\ runs = 0
    /\ lastRun = NoRun
    /\ notice = "none"
    /\ NoValues
    /\ NoFlights
    /\ NoAnalysis

\* onClick: both confirmations are accepted, the run takes the rows of the
\* store with get() and awaits the read of the reference file
OnClick ==
    /\ Len(flights) < MaxFlights
    /\ flights' = Append(flights, [pc |-> "readRef", rows |-> rows, refBuf |-> <<>>, compBuf |-> <<>>,
                                   counts |-> NoRun])
    /\ UNCHANGED commitVars
    /\ UNCHANGED storeVars
    /\ UNCHANGED matchVars
    /\ UNCHANGED valueVars
    /\ UNCHANGED analysisVars

\* await readSafe(refFilePath): the run holds the bytes the file has now
ReadRef(i) ==
    /\ flights[i].pc = "readRef"
    /\ flights' = [flights EXCEPT ![i].pc = "readComp", ![i].refBuf = refFile]
    /\ UNCHANGED commitVars
    /\ UNCHANGED storeVars
    /\ UNCHANGED matchVars
    /\ UNCHANGED valueVars
    /\ UNCHANGED analysisVars

\* await readSafe(compFilePath)
ReadComp(i) ==
    /\ flights[i].pc = "readComp"
    /\ flights' = [flights EXCEPT ![i].pc = "writeRef", ![i].compBuf = compFile]
    /\ UNCHANGED commitVars
    /\ UNCHANGED storeVars
    /\ UNCHANGED matchVars
    /\ UNCHANGED valueVars
    /\ UNCHANGED analysisVars

\* the loads, the walk over the rows and the write of the reference document;
\* a run that returns early ends here
WriteRef(i) ==
    /\ flights[i].pc = "writeRef"
    /\ LET f == flights[i]
           out == applyAnalysisEngineChanges(f.refBuf, f.compBuf, f.rows,
                                             GridColumns(EffectiveMappings(mappings, DefaultColumnExclusion),
                                                         pkColumn),
                                             pkColumn, SheetName, SheetName)
       IN  IF out.completed
           THEN /\ refFile' = out.refWb
                /\ flights' = [flights EXCEPT ![i].pc = "writeComp", ![i].compBuf = out.compWb,
                                               ![i].counts = [ completed |-> TRUE,
                                                               updatedCount |-> out.updatedCount,
                                                               noTargetRowCount |-> out.noTargetRowCount,
                                                               ignoredDelAddCount |-> out.ignoredDelAddCount,
                                                               identicalValueCount |-> out.identicalValueCount,
                                                               noReviewDataCount |-> out.noReviewDataCount ]]
                /\ UNCHANGED <<lastRun, notice>>
           ELSE /\ flights' = [flights EXCEPT ![i].pc = "done"]
                /\ lastRun' = NoRun
                /\ notice' = out.notice
                /\ UNCHANGED refFile
    /\ UNCHANGED <<compFile, runs>>
    /\ UNCHANGED storeVars
    /\ UNCHANGED matchVars
    /\ UNCHANGED valueVars
    /\ UNCHANGED analysisVars

\* the write of the comparison document, the summary and the return
WriteComp(i) ==
    /\ flights[i].pc = "writeComp"
    /\ compFile' = flights[i].compBuf
    /\ lastRun' = flights[i].counts
    /\ notice' = "summary"
    /\ flights' = [flights EXCEPT ![i].pc = "done"]
    /\ UNCHANGED <<refFile, runs>>
    /\ UNCHANGED storeVars
    /\ UNCHANGED matchVars
    /\ UNCHANGED valueVars
    /\ UNCHANGED analysisVars

NextFlight ==
    \/ OnClick
    \/ \E i \in DOMAIN flights : ReadRef(i)
    \/ \E i \in DOMAIN flights : ReadComp(i)
    \/ \E i \in DOMAIN flights : WriteRef(i)
    \/ \E i \in DOMAIN flights : WriteComp(i)

SpecFlight == InitFlight /\ [][NextFlight]_vars

\* ------------------------------------------- the mapping screen and its analysis
\* JSON.stringify of the fields the snapshot holds; the sheet indices, sheet
\* names and header rows of the single-sheet workbooks never change
generateConfigSnapshot(stMappings, stPkColumn, stSkColumn, stColumnExclusion) ==
    [ mappings |-> stMappings, pkColumn |-> stPkColumn, skColumn |-> stSkColumn,
      refSheetIdx |-> 0, compSheetIdx |-> 0, refSheetName |-> SheetName, compSheetName |-> SheetName,
      columnExclusion |-> stColumnExclusion, refHeaderRow |-> 0, compHeaderRow |-> 0 ]

\* the configuration runComparison hands to compareDatasets
MatcherInputs(stMappings, pk, sk, stPkExclusion, stColumnExclusion) ==
    [ pkColumn |-> pk, skColumn |-> sk, mappings |-> stMappings, exclusionRules |-> <<>>,
      pkExclusion |-> stPkExclusion, columnExclusion |-> stColumnExclusion ]

PkExclusions == {DefaultPkExclusion, ConfigExcluding.pkExclusion}

ColumnExclusions == {DefaultColumnExclusion, [excludeUnnamed |-> TRUE, patterns |-> <<D>>]}

\* the review columns the selector can leave checked
ReviewSelections == {{T, S, D}, {T, S}}

\* the configurations of the mapping screen: those of the matcher and one
\* with an identity column and an empty mapping list
ConfigUnmapped == [ConfigPK EXCEPT !.mappings = <<>>]

AnalysisConfigs == Configs \cup {ConfigUnmapped}

\* the generation and the inputs of a saved project
SavedInputs ==
    MatcherInputs(ConfigPK.mappings, ConfigPK.pkColumn, ConfigPK.skColumn, DefaultPkExclusion, DefaultColumnExclusion)

SavedRows == compareDatasets(CommitData, SuffixedData, SavedInputs, TRUE)

\* the mapping screen after setWorkbooks, or the grid after importProject
\* has restored a saved project whose two files it could not load
InitAnalysis ==
    /\ MatcherIdle
    /\ mappings = ConfigPK.mappings
    /\ pkColumn = ConfigPK.pkColumn
    /\ skColumn = ConfigPK.skColumn
    /\ memos = <<>>
    /\ now = 0
    /\ ops = 0
    /\ justApplied = FALSE
    /\ applied = 0
    /\ NoCommit
    /\ NoValues
    /\ NoFlights
    /\ pkExclusion = DefaultPkExclusion
    /\ columnExclusion = DefaultColumnExclusion
    /\ error = ""
    /\ \/ /\ refWorkbook = CommitWorkbook
          /\ compWorkbook = SuffixedWorkbook
          /\ rows = <<>>
          /\ lastRunConfig = NoSnapshot
          /\ view = "mapping"
          /\ ranWith = NoInputs
          /\ detailedSummary = <<>>
       \/ /\ refWorkbook = NoWorkbook
          /\ compWorkbook = NoWorkbook
          /\ rows = SavedRows
          /\ lastRunConfig = generateConfigSnapshot(mappings, pkColumn, skColumn, columnExclusion)
          /\ view = "grid"
          /\ ranWith = SavedInputs
          /\ detailedSummary = ImportedSummary(SavedRows, mappings, pkColumn, skColumn, columnExclusion)

\* the mapping controls of the mapping screen
SetMappings ==
    /\ view = "mapping"
    /\ \E cfg \in AnalysisConfigs :
          /\ mappings' = cfg.mappings
          /\ pkColumn' = cfg.pkColumn
          /\ skColumn' = cfg.skColumn
    /\ UNCHANGED <<refWorkbook, compWorkbook, rows, memos, now, ops, justApplied, applied>>
    /\ UNCHANGED analysisVars
    /\ UNCHANGED matchVars
    /\ UNCHANGED commitVars
    /\ UNCHANGED valueVars
    /\ UNCHANGED flightVars

SetPKExclusion ==
    /\ view = "mapping"
    /\ \E config \in PkExclusions : pkExclusion' = config
    /\ UNCHANGED <<columnExclusion, lastRunConfig, view, ranWith, detailedSummary, error>>
    /\ UNCHANGED storeVars
    /\ UNCHANGED matchVars
    /\ UNCHANGED commitVars
    /\ UNCHANGED valueVars
    /\ UNCHANGED flightVars

SetColumnExclusion ==
    /\ view = "mapping"
    /\ \E config \in ColumnExclusions : columnExclusion' = config
    /\ UNCHANGED <<pkExclusion, lastRunConfig, view, ranWith, detailedSummary, error>>
    /\ UNCHANGED storeVars
    /\ UNCHANGED matchVars
    /\ UNCHANGED commitVars
    /\ UNCHANGED valueVars
    /\ UNCHANGED flightVars

\* handleRunAnalysis: the matcher runs on a first run or a changed snapshot,
\* and the grid is shown either way.  With no identity column the handler
\* returns at once and changes nothing.  runComparison throws when a workbook
\* is missing: the store and the handler set the error, and neither the
\* snapshot nor the screen is changed.  A run ends in recalculateSummary.
HandleRunAnalysis ==
    /\ view = "mapping"
    /\ pkColumn # <<>>
    /\ LET currentSnapshot == generateConfigSnapshot(mappings, pkColumn, skColumn, columnExclusion)
           isFirstRun      == lastRunConfig = NoSnapshot
           isConfigChanged == lastRunConfig # currentSnapshot
           inputs          == MatcherInputs(mappings, pkColumn, skColumn, pkExclusion, columnExclusion)
       IN  IF isFirstRun \/ isConfigChanged
           THEN IF ~refWorkbook.loaded \/ ~compWorkbook.loaded
                THEN /\ error' = IF ~refWorkbook.loaded THEN "no reference workbook" ELSE "no comparison workbook"
                     /\ UNCHANGED <<rows, memos, ops, justApplied, lastRunConfig, ranWith, detailedSummary, view>>
                ELSE /\ rows' = compareDatasets(refWorkbook.data, compWorkbook.data, inputs, TRUE)
                     /\ memos' = CommentMemos(refWorkbook, compWorkbook, rows', pkColumn, skColumn)
                     /\ detailedSummary' = recalculateSummary(rows', mappings, columnExclusion)
                     /\ ops' = 0
                     /\ justApplied' = FALSE
                     /\ lastRunConfig' = currentSnapshot
                     /\ ranWith' = inputs
                     /\ view' = "grid"
                     /\ UNCHANGED error
           ELSE /\ view' = "grid"
                /\ UNCHANGED <<rows, memos, ops, justApplied, lastRunConfig, ranWith, detailedSummary, error>>
    /\ UNCHANGED <<refWorkbook, compWorkbook, mappings, pkColumn, skColumn, now, applied>>
    /\ UNCHANGED <<pkExclusion, columnExclusion>>
    /\ UNCHANGED matchVars
    /\ UNCHANGED commitVars
    /\ UNCHANGED valueVars
    /\ UNCHANGED flightVars

\* the settings button of the grid header
SetViewMapping ==
    /\ view = "grid"
    /\ view' = "mapping"
    /\ UNCHANGED <<pkExclusion, columnExclusion, lastRunConfig, ranWith, detailedSummary, error>>
    /\ UNCHANGED storeVars
    /\ UNCHANGED matchVars
    /\ UNCHANGED commitVars
    /\ UNCHANGED valueVars
    /\ UNCHANGED flightVars

\* handleApply of the review column selector: the targets follow the checked
\* columns, setSelectedReviewColumns recalculates the summary and the snapshot
\* is renewed without a run
HandleApply ==
    /\ view = "grid"
    /\ \E selectedColumns \in ReviewSelections :
          mappings' = [k \in DOMAIN mappings |->
                         [mappings[k] EXCEPT !.isTarget = mappings[k].refColumn \in selectedColumns]]
    /\ detailedSummary' = recalculateSummary(rows, mappings', columnExclusion)
    /\ lastRunConfig' = generateConfigSnapshot(mappings', pkColumn, skColumn, columnExclusion)
    /\ UNCHANGED <<refWorkbook, compWorkbook, pkColumn, skColumn, rows, memos, now, ops, justApplied, applied>>
    /\ UNCHANGED <<pkExclusion, columnExclusion, view, ranWith, error>>
    /\ UNCHANGED matchVars
    /\ UNCHANGED commitVars
    /\ UNCHANGED valueVars
    /\ UNCHANGED flightVars

NextAnalysis ==
    \/ SetMappings
    \/ SetPKExclusion
    \/ SetColumnExclusion
    \/ HandleRunAnalysis
    \/ SetViewMapping
    \/ HandleApply

SpecAnalysis == InitAnalysis /\ [][NextAnalysis]_vars

\* ------------------------------------------------------------------ claims
CountBoth(out) == Cardinality({k \in 1..Len(out) : out[k].exists = "Both"})

UsesOfRef(pairs, i) == {k \in 1..Len(pairs) : pairs[k].ref = i}

UsesOfComp(pairs, j) == {k \in 1..Len(pairs) : pairs[k].comp = j}

Completeness(out, fRef, fComp, pairs, pk, compPK) ==
    /\ Len(out) = Len(pairs)
    /\ \A i \in 1..Len(fRef) :
          /\ Cardinality(UsesOfRef(pairs, i)) = 1
          /\ \A k \in UsesOfRef(pairs, i) :
                /\ out[k].exists \in {"Both", "Only Ref"}
                /\ out[k].cells[RefCol(pk)] = normalizeKey(RawGet(fRef[i], pk))
    /\ \A j \in 1..Len(fComp) :
          /\ Cardinality(UsesOfComp(pairs, j)) = 1
          /\ \A k \in UsesOfComp(pairs, j) :
                /\ out[k].exists \in {"Both", "Only Comp"}
                /\ out[k].cells[CompCol(pk)] = normalizeKey(RawGet(fComp[j], compPK))
    /\ \A k \in 1..Len(pairs) :
          /\ out[k].exists = "Only Ref" => pairs[k].ref # 0 /\ pairs[k].comp = 0
          /\ out[k].exists = "Only Comp" => pairs[k].ref = 0 /\ pairs[k].comp # 0
          /\ out[k].exists = "Both" => pairs[k].ref # 0 /\ pairs[k].comp # 0
    /\ Len(out) = Len(fRef) + Len(fComp) - CountBoth(out)

mFilteredRef == FilteredRef(mRef, mConfig, mB1)

mFilteredComp == FilteredComp(mComp, mConfig, mB1)

mCompPK == CompPKColumn(mConfig.mappings, mConfig.pkColumn)

\* C1: matching completeness. Every row that survives applyExclusionRules
\* is used by exactly one output row of compareDatasets (a reference row by a
\* Both or an Only Ref row, a comparison row by a Both or an Only Comp row),
\* and the output has |surviving ref| + |surviving comp| - |Both| rows.
C1_MatchingCompleteness ==
    mDone =>
        LET fRef  == mFilteredRef
            fComp == mFilteredComp
        IN  Completeness(mOut, fRef, fComp, MatchPairs(fRef, fComp, mConfig), mConfig.pkColumn, mCompPK)

C1_Witness ==
    /\ mDone
    /\ Len(mFilteredRef) < Len(mRef)
    /\ \E k \in 1..Len(mOut) : mOut[k].exists = "Both"
    /\ \E k \in 1..Len(mOut) : mOut[k].exists = "Only Comp"

PKPairs(pairs) == {k \in 1..Len(pairs) : pairs[k].exists = "Both" /\ ~pairs[k].sk}

\* refId / compId: identity prefix of each filtered row
FirstUnmatchedWins(pairs, refId, compId) ==
    LET pkPairs == PKPairs(pairs)
    IN  /\ \A k \in pkPairs : refId[pairs[k].ref] = compId[pairs[k].comp]
        /\ \A k1, k2 \in pkPairs : k1 < k2 => pairs[k1].ref < pairs[k2].ref
        /\ \A k \in pkPairs : \A j \in 1..(pairs[k].comp - 1) :
              compId[j] = refId[pairs[k].ref] =>
                  \E e \in pkPairs : pairs[e].comp = j /\ pairs[e].ref < pairs[k].ref
        /\ \A i \in 1..Len(refId) :
              (refId[i] # <<>> /\ ~\E k \in pkPairs : pairs[k].ref = i) =>
                  \A j \in 1..Len(compId) :
                      compId[j] = refId[i] =>
                          \E e \in pkPairs : pairs[e].comp = j /\ pairs[e].ref < i
        /\ \A k1, k2 \in 1..Len(pairs) :
              (k1 # k2 /\ pairs[k1].exists = "Both" /\ pairs[k2].exists = "Both") =>
                  pairs[k1].comp # pairs[k2].comp /\ pairs[k1].ref # pairs[k2].ref

IdentityPrefixes(raw, col) == [i \in 1..Len(raw) |-> SplitFirst(getValueWithFallback(raw[i], col))]

\* C3: identity matching takes the reference rows in original order and pairs
\* each with the lowest-index comparison row that is still unmatched and has
\* the same identity prefix before '::'; no row is paired twice.
C3_FirstUnmatchedWins ==
    mDone =>
        LET fRef  == mFilteredRef
            fComp == mFilteredComp
        IN  FirstUnmatchedWins(MatchPairs(fRef, fComp, mConfig),
                               IdentityPrefixes(fRef, mConfig.pkColumn),
                               IdentityPrefixes(fComp, mCompPK))

SharedIdentityPaired(pairs, refId) ==
    \E k1, k2 \in PKPairs(pairs) :
        /\ k1 # k2
        /\ refId[pairs[k1].ref] = refId[pairs[k2].ref]
        /\ pairs[k1].comp > pairs[k2].comp

C3_Witness ==
    /\ mDone
    /\ SharedIdentityPaired(MatchPairs(mFilteredRef, mFilteredComp, mConfig),
                            IdentityPrefixes(mFilteredRef, mConfig.pkColumn))

EffectiveColumns(config) ==
    {(EffectiveMappings(config.mappings, config.columnExclusion))[i].refColumn :
        i \in 1..Len(EffectiveMappings(config.mappings, config.columnExclusion))}

HasDiff(row, base) == Cell(row, DiffCol(base)) = TrueStr

\* review value if present, else the original value
ReviewFirst(row, orig, review) == OrElse(Trim(Str(Cell(row, review))), Str(Cell(row, orig)))

\* C5: a row of compareDatasets carries C_diff exactly when it is a Both row
\* whose effective reference and comparison values (review value if present,
\* else original) do not match; Only Ref / Only Comp rows carry no C_diff.
C5_DiffIffEffectiveMismatch ==
    mDone =>
        \A k \in 1..Len(mOut) : \A c \in EffectiveColumns(mConfig) :
            HasDiff(mOut[k], c) <=>
                /\ mOut[k].exists = "Both"
                /\ ~isValuesMatch(ReviewFirst(mOut[k], RefCol(c), RefReviewCol(c)),
                                  ReviewFirst(mOut[k], CompCol(c), CompReviewCol(c)))

\* C2: in every state the store reaches by runComparison, cell edits,
\* applyReviewCompensation and addChecklistItem, every row has a non-empty
\* integratedKey.
C2_KeysNeverEmpty == \A i \in 1..Len(rows) : rows[i].integratedKey # <<>>

refReviewCol == PkRefReviewCol(mappings, pkColumn)

compReviewCol == PkCompReviewCol(mappings, pkColumn)

\* the step just taken was a call of applyReviewCompensation that went past
\* its "no review value anywhere" return
Compensates == justApplied' /\ HasReviewChanges(rows, refReviewCol, compReviewCol)

RECURSIVE SplitOn(_, _)
SplitOn(s, sep) ==
    IF ~Includes(s, sep) THEN <<s>>
    ELSE <<SubSeq(s, 1, IndexOf(s, sep) - 1)>> \o SplitOn(SubSeq(s, IndexOf(s, sep) + Len(sep), Len(s)), sep)

\* the texts a remark cell lists
Texts(v) == IF v = <<>> THEN <<>> ELSE SplitOn(v, MergeSlash)

NoDuplicates(q) == \A i, j \in 1..Len(q) : i # j => q[i] # q[j]

ColumnsOf(members) == UNION {DOMAIN members[k].cells : k \in 1..Len(members)}

MemberTexts(members, c) == UNION {Range(Texts(CellStr(members[k], c))) : k \in 1..Len(members)}

\* the representative's value if non-blank, else the first non-blank value
FirstNonBlank(members, rep, c) ==
    LET filled(k) == CellStr(members[k], c) # <<>>
        first == FindIndex(Len(members), filled)
    IN  IF CellStr(rep, c) # <<>> THEN Cell(rep, c)
        ELSE IF first # 0 THEN Cell(members[first], c)
        ELSE Cell(rep, c)

OneMergedRow(after, key) ==
    /\ Cardinality({j \in 1..Len(after) : after[j].integratedKey = key}) = 1
    /\ \A j \in 1..Len(after) : after[j].integratedKey = key => after[j].exists = "Both(M)"

RemarksKeepEveryText(after, key, members) ==
    \A j \in 1..Len(after) : after[j].integratedKey = key =>
        \A c \in ColumnsOf(members) : IsRemarkType(c) =>
            /\ NoDuplicates(Texts(CellStr(after[j], c)))
            /\ Range(Texts(CellStr(after[j], c))) = MemberTexts(members, c)

OthersKeepFirstNonBlank(after, key, members) ==
    \A j \in 1..Len(after) : after[j].integratedKey = key =>
        \A c \in ColumnsOf(members) : ~IsRemarkType(c) =>
            Cell(after[j], c) = FirstNonBlank(members, Representative(members), c)

MergedGroups(before, targets) == {key \in Range(targets) : Len(GroupRows(before, targets, key)) >= 2}

MergeCorrect(before, after, targets) ==
    \A key \in MergedGroups(before, targets) :
        /\ OneMergedRow(after, key)
        /\ RemarksKeepEveryText(after, key, GroupRows(before, targets, key))
        /\ OthersKeepFirstNonBlank(after, key, GroupRows(before, targets, key))

\* C6: when applyReviewCompensation finds two or more rows with one target
\* key, exactly one row with that key and status Both(M) replaces them; each
\* remark/review-type column of it lists every member's distinct non-blank
\* text exactly once, every other column holds the representative's value if
\* non-blank, else the first non-blank value of the members in row order.
C6_MergeCorrectness ==
    [][Compensates => MergeCorrect(rows, rows', TargetKeys(rows, refReviewCol, compReviewCol))]_vars

\* C7: a second applyReviewCompensation right after the first changes nothing:
\* same rows in the same order, same memos, and it reports 0 merges.
C7_Idempotent ==
    [][(justApplied /\ justApplied') => (rows' = rows /\ memos' = memos /\ applied' = 0)]_vars

\* the column ids a memo is attached to: the sheets' columns on either side
AnnotatedColumns ==
    {refWorkbook.columns[c] \o GIJUN : c \in 1..Len(refWorkbook.columns)}
    \cup {compWorkbook.columns[c] \o BIGYO : c \in 1..Len(compWorkbook.columns)}
    \cup MemoColumns

Migrated(before, after, row, c) ==
    MemoKey(row.integratedKey, c) \in DOMAIN before =>
        /\ MemoKey(TargetKey(row, refReviewCol, compReviewCol), c) \in DOMAIN after
        /\ Includes(after[MemoKey(TargetKey(row, refReviewCol, compReviewCol), c)],
                    before[MemoKey(row.integratedKey, c)])

\* C8: after applyReviewCompensation every memo that was keyed by a row's
\* integratedKey and a column is found under that row's target key and the
\* same column, with a text that includes the original text; no memo of an
\* existing row is lost.
C8_MemosMigrated ==
    [][Compensates => \A i \in 1..Len(rows) : \A c \in AnnotatedColumns : Migrated(memos, memos', rows[i], c)]_vars

\* the grid columns and the row maps of the run the store is about to make
gridColumns == GridColumns(EffectiveMappings(mappings, DefaultColumnExclusion), pkColumn)

runContext == RunContext(refFile, compFile, gridColumns, pkColumn, SheetName, SheetName)

\* the loop of the run reaches its rows: both documents hold a sheet and identities
LoopRuns(ctx) ==
    /\ ~LoadFails(refFile) /\ ~LoadFails(compFile)
    /\ refFile # <<>> /\ compFile # <<>> /\ ctx.rowMap[TRUE] # <<>> /\ ctx.rowMap[FALSE] # <<>>

\* the accumulators as the loop reaches side isRef of grid row k
BeforeSide(k, isRef, ctx) ==
    IF isRef
    THEN HandleStatus(ProcessRows(StartOfRun(refFile, compFile), rows, k - 1, ctx), rows[k], ctx)
    ELSE processSideUpdates(HandleStatus(ProcessRows(StartOfRun(refFile, compFile), rows, k - 1, ctx), rows[k], ctx),
                            rows[k], TRUE, ctx)

\* the document row the cascade finds for a side the run looks up, NoTarget
\* for a side it skips or cannot locate
TargetOf(before, row, isRef, ctx) ==
    IF /\ SideStatus(row, ctx.pkColumn, isRef) = "none"
       /\ row.exists # (IF isRef THEN "Only Comp" ELSE "Only Ref")
       /\ ~isInternal(LookupPK(row, ctx.pkColumn, isRef))
    THEN Resolve(ctx.rowMap[isRef], before.wb[isRef], row.integratedKey, LookupPK(row, ctx.pkColumn, isRef))
    ELSE NoTarget

\* the identity column and the mapped columns
BaseColumns == {pkColumn} \cup {mappings[i].refColumn : i \in 1..Len(mappings)}

\* the column of the target's sheet a base column resolves to, 0 when none
ColumnOf(after, target, isRef, base) == findInMap(MapGet(after.colMaps[isRef], target.sheet), base)

\* the located cells of the side: a non-blank reviewed value and a resolved header
LocatedCells(after, target, row, isRef) ==
    IF target # NoTarget
    THEN {base \in BaseColumns : /\ CellStr(row, SideReviewCol(base, isRef)) # <<>>
                                 /\ ColumnOf(after, target, isRef, base) # 0}
    ELSE {}

\* the value of a located cell in the document of the given accumulators
DocValue(acc, after, target, isRef, base) ==
    GetCell(acc.wb[isRef][target.sheet], target.rowNumber, ColumnOf(after, target, isRef, base)).value

\* the located cells whose trimmed text differs from the trimmed reviewed value
Differing(before, after, target, row, isRef) ==
    {base \in LocatedCells(after, target, row, isRef) :
        Trim(DocValue(before, after, target, isRef, base)) # CellStr(row, SideReviewCol(base, isRef))}

CellsSettled(before, after, row, isRef, located, differing, target) ==
    /\ \A base \in differing :
          DocValue(after, after, target, isRef, base) = CellStr(row, SideReviewCol(base, isRef))
    /\ \A base \in located \ differing :
          DocValue(after, after, target, isRef, base) = DocValue(before, after, target, isRef, base)
    /\ after.updatedCount - before.updatedCount = Cardinality(differing)
    /\ after.identicalValueCount - before.identicalValueCount = Cardinality(located \ differing)

SideSettled(before, after, row, isRef, target) ==
    CellsSettled(before, after, row, isRef, LocatedCells(after, target, row, isRef),
                 Differing(before, after, target, row, isRef), target)

\* what one side of one row contributes: whether its cells are settled, and
\* the numbers of its located and of its differing cells
SideReport(before, after, row, isRef, target) ==
    [ ok        |-> SideSettled(before, after, row, isRef, target),
      located   |-> Cardinality(LocatedCells(after, target, row, isRef)),
      differing |-> Cardinality(Differing(before, after, target, row, isRef)) ]

JoinReports(a, b, c) ==
    [ ok        |-> a.ok /\ b.ok /\ c.ok,
      located   |-> a.located + b.located + c.located,
      differing |-> a.differing + b.differing + c.differing ]

\* the reports of grid rows k.. as the loop walks them: s0 the accumulators
\* after the deletes and adds of row k, s1 after its reference side, s2 after
\* its comparison side
RECURSIVE ReportFrom(_, _, _)
ReportBoth(s0, s1, s2, k, ctx) ==
    JoinReports(SideReport(s0, s1, rows[k], TRUE, TargetOf(s0, rows[k], TRUE, ctx)),
                SideReport(s1, s2, rows[k], FALSE, TargetOf(s1, rows[k], FALSE, ctx)),
                ReportFrom(s2, k + 1, ctx))

ReportComp(s0, s1, k, ctx) == ReportBoth(s0, s1, processSideUpdates(s1, rows[k], FALSE, ctx), k, ctx)

ReportRef(s0, k, ctx) == ReportComp(s0, processSideUpdates(s0, rows[k], TRUE, ctx), k, ctx)

ReportFrom(acc, k, ctx) ==
    IF k > Len(rows) THEN [ok |-> TRUE, located |-> 0, differing |-> 0]
    ELSE ReportRef(HandleStatus(acc, rows[k], ctx), k, ctx)

ReturnsCounts(result, counts) ==
    result.completed =>
        /\ result.updatedCount = counts.differing
        /\ result.identicalValueCount = counts.located - counts.differing

\* every side is settled and the run returns the two counts
Settled(result, report) == report.ok /\ ReturnsCounts(result, report)

UpdatedIffDifferent(ctx) ==
    LoopRuns(ctx) => Settled(lastRun', ReportFrom(StartOfRun(refFile, compFile), 1, ctx))

\* a step that is a run of the commit engine
Commits == runs' = runs + 1

\* a run that walks the rows, saves both documents and returns its counts
ProcessesRows == Commits /\ notice' = "summary"

\* C9: in every run of the commit, each located document cell with a
\* non-blank reviewed value is overwritten with the reviewed value and counted
\* as updated exactly when its trimmed text differs from the trimmed reviewed
\* value; when they are equal its value stays and it is counted as identical;
\* so the run returns as updated the number of differing cells and as
\* identical the number of the other located cells, no cell in both counts.
C9_UpdatedIffDifferent == [][ProcessesRows => UpdatedIffDifferent(runContext)]_vars

\* a run has overwritten a differing cell and has left an equal one
C9_Witness == lastRun.completed /\ lastRun.updatedCount > 0 /\ lastRun.identicalValueCount > 0

\* the columns of the side whose reviewed value is non-blank and differs from the original
ChangedColumns(row, isRef) ==
    {base \in BaseColumns : /\ CellStr(row, SideReviewCol(base, isRef)) # <<>>
                            /\ CellStr(row, SideReviewCol(base, isRef)) # CellStr(row, SideCol(base, isRef))}

\* the entry holds the row's identity, status and remark and, of its data, the
\* reviewed values of exactly the changed columns
IsExceptionOf(entry, row, isRef) ==
    /\ Trim(entry.logic) # <<>>
    /\ entry.key = row.integratedKey
    /\ entry.exists = row.exists
    /\ entry.remarks = CellStr(row, REVIEW_REMARKS)
    /\ Cardinality(DOMAIN entry.columns) = Cardinality(ChangedColumns(row, isRef))
    /\ \A base \in ChangedColumns(row, isRef) :
          \E t \in DOMAIN entry.columns : entry.columns[t] = CellStr(row, SideReviewCol(base, isRef))

\* the side adds one entry to its exceptions list and nothing to the updated count
OneException(before, after, row, isRef) ==
    /\ Len(after.checkRows[isRef]) = Len(before.checkRows[isRef]) + 1
    /\ SubSeq(after.checkRows[isRef], 1, Len(before.checkRows[isRef])) = before.checkRows[isRef]
    /\ after.updatedCount = before.updatedCount
    /\ IsExceptionOf(after.checkRows[isRef][Len(after.checkRows[isRef])], row, isRef)

\* the cascade fails for a side the run looks up
CascadeFails(before, row, isRef, ctx) ==
    /\ SideStatus(row, ctx.pkColumn, isRef) = "none"
    /\ row.exists # (IF isRef THEN "Only Comp" ELSE "Only Ref")
    /\ ~isInternal(LookupPK(row, ctx.pkColumn, isRef))
    /\ TargetOf(before, row, isRef, ctx) = NoTarget

FailureReported(before, row, isRef, ctx) ==
    CascadeFails(before, row, isRef, ctx) =>
        OneException(before, processSideUpdates(before, row, isRef, ctx), row, isRef)

ExceptionsHoldChangedColumns(ctx) ==
    LoopRuns(ctx) =>
        /\ \A k \in 1..Len(rows) : \A isRef \in BOOLEAN :
              FailureReported(BeforeSide(k, isRef, ctx), rows[k], isRef, ctx)
        /\ Ran(refFile, compFile, rows, gridColumns, ctx).completed

\* C10: when the cascade fails for a row on one side, the run adds exactly
\* one entry to that side's exceptions list, holding the row's integrated
\* key, status and general remark and exactly the columns whose reviewed value
\* is non-blank and differs from the original; the row adds nothing to the
\* updated count, and the run completes.
C10_ExceptionHoldsChangedColumns == [][Commits => ExceptionsHoldChangedColumns(runContext)]_vars

\* the identity column of a header row for one index: the integrated-key
\* header for the integrated-key index, the primary-identity header for the
\* primary-identity index; 0 when the row holds none
IndexColumn(hRow, normTitle, integratedIndex) ==
    LET norm(c)       == normalizeHeader(getCellValue(hRow[c]))
        integrated(c) == /\ getCellValue(hRow[c]) # <<>>
                         /\ norm(c) \in {<<"TONGHAP", "k", "e", "y">>, <<"integratedkey">>, <<"TONGHAP", "KI">>}
        exact(c)      == getCellValue(hRow[c]) # <<>> /\ ~integrated(c) /\ norm(c) = normTitle
        fuzzy(c)      == /\ getCellValue(hRow[c]) # <<>> /\ ~integrated(c)
                         /\ norm(c) # <<>> /\ normTitle # <<>>
                         /\ (Includes(norm(c), normTitle) \/ Includes(normTitle, norm(c)))
    IN  IF integratedIndex THEN FindIndex(Len(hRow), integrated)
        ELSE IF FindLastIndex(Len(hRow), exact) # 0 THEN FindLastIndex(Len(hRow), exact)
        ELSE FindIndex(Len(hRow), fuzzy)

\* the header row of a sheet for one index: the configured row, else the
\* first of the leading rows that holds the index's header; 0 when none
IndexHeaderRow(sheet, headerRow, normTitle, integratedIndex) ==
    LET found(r) == IndexColumn(SheetRow(sheet, r), normTitle, integratedIndex) # 0
    IN  IF found(headerRow) THEN headerRow
        ELSE FindIndex(IF Len(sheet.cells) < ScanLimit THEN Len(sheet.cells) ELSE ScanLimit, found)

SheetIndexed(map, sheet, s, normTitle, integratedIndex, actualHeaderRow) ==
    IF IsInternalSheet(sheet.name) \/ actualHeaderRow = 0 THEN map
    ELSE RowEntries(map, sheet, s, IndexColumn(SheetRow(sheet, actualHeaderRow), normTitle, integratedIndex),
                    actualHeaderRow + 1)

\* one of the two indexes of a document, built over its non-system sheets
RECURSIVE IndexOver(_, _, _, _, _)
IndexOver(map, wb, sortedSheets, normTitle, integratedIndex) ==
    IF sortedSheets = <<>> THEN map
    ELSE IndexOver(SheetIndexed(map, wb[Head(sortedSheets)], Head(sortedSheets), normTitle, integratedIndex,
                                IndexHeaderRow(wb[Head(sortedSheets)], HeaderRowNum, normTitle, integratedIndex)),
                   wb, Tail(sortedSheets), normTitle, integratedIndex)

KeyIndex(wb, integratedIndex) ==
    IndexOver(<<>>, wb, SortedSheets(wb, SheetName), normalizeHeader(pkColumn), integratedIndex)

\* the first step of the cascade that finds a document row
FirstSuccess(integratedKeys, primaryKeys, wb, intKey, lookupKey) ==
    IF MapHas(integratedKeys, intKey) THEN MapGet(integratedKeys, intKey)
    ELSE IF MapHas(integratedKeys, normalizeForComparison(intKey))
    THEN MapGet(integratedKeys, normalizeForComparison(intKey))
    ELSE IF MapHas(primaryKeys, lookupKey) THEN MapGet(primaryKeys, lookupKey)
    ELSE IF MapHas(primaryKeys, normalizeForComparison(lookupKey))
    THEN MapGet(primaryKeys, normalizeForComparison(lookupKey))
    ELSE DeepSearch(wb, normalizeForComparison(OrElse(lookupKey, intKey)))

\* the side is one the run looks up
LooksUp(row, isRef, ctx) ==
    /\ SideStatus(row, ctx.pkColumn, isRef) = "none"
    /\ row.exists # (IF isRef THEN "Only Comp" ELSE "Only Ref")
    /\ ~isInternal(LookupPK(row, ctx.pkColumn, isRef))

SideFollowsCascade(before, row, isRef, ctx, integratedKeys, primaryKeys) ==
    LooksUp(row, isRef, ctx) =>
        TargetOf(before, row, isRef, ctx)
            = FirstSuccess(integratedKeys, primaryKeys, before.wb[isRef], row.integratedKey,
                           LookupPK(row, ctx.pkColumn, isRef))

CascadeFollowed(ctx) ==
    LoopRuns(ctx) =>
        \A k \in 1..Len(rows) : \A isRef \in BOOLEAN :
            SideFollowsCascade(BeforeSide(k, isRef, ctx), rows[k], isRef, ctx,
                               KeyIndex(IF isRef THEN refFile ELSE compFile, TRUE),
                               KeyIndex(IF isRef THEN refFile ELSE compFile, FALSE))

\* C11: for each row and side a run looks up, the document row it chooses is
\* found by the first successful step of: the exact integrated key in the
\* integrated-key index, the normalized integrated key in that index, the
\* exact then the normalized primary identity value in the separately built
\* primary-identity index, and last the deep scan of the non-system sheets.
C11_FirstSuccessInOrder == [][Commits => CascadeFollowed(runContext)]_vars

\* a custom pattern applies to an identity value: a pattern wrapped in /.../
\* as a case-insensitive regular expression, any other as a case-insensitive
\* substring
ExclusionApplies(pattern, value) ==
    IF Len(pattern) >= 2 /\ Head(pattern) = "/" /\ pattern[Len(pattern)] = "/"
    THEN RegexTest(SubSeq(pattern, 2, Len(pattern) - 1), value)
    ELSE Includes(toLowerCase(value), toLowerCase(pattern))

\* the normalized identity values of the rows of one side that a configured
\* custom pattern applies to
ExcludedIdentities(data, col, patterns) ==
    { normalizeKey(RawGet(data[i], col)) :
        i \in { j \in 1..Len(data) :
                  \E p \in 1..Len(patterns) : ExclusionApplies(patterns[p], normalizeKey(RawGet(data[j], col))) } }

\* no output row holds a row of the side with one of the identities
AbsentFrom(out, identities, col, statuses) ==
    \A k \in 1..Len(out) : out[k].exists \in statuses => Cell(out[k], col) \notin identities

\* the filter has removed every row with one of the identities
RemovedFrom(filtered, identities, col) ==
    \A i \in 1..Len(filtered) : normalizeKey(RawGet(filtered[i], col)) \notin identities

ExcludedOnSide(out, data, filtered, col, outCol, statuses, patterns) ==
    /\ RemovedFrom(filtered, ExcludedIdentities(data, col, patterns), col)
    /\ AbsentFrom(out, ExcludedIdentities(data, col, patterns), outCol, statuses)

\* C12: a row whose normalized identity value matches a configured custom
\* identity-exclusion pattern (/.../ as a case-insensitive regular expression,
\* any other pattern as a case-insensitive substring) is removed by the
\* exclusion filter on its side and appears in no output row of
\* compareDatasets, whatever its other columns hold.
C12_ExcludedRowsAbsent ==
    mDone =>
        /\ ExcludedOnSide(mOut, mRef, mFilteredRef, mConfig.pkColumn, RefCol(mConfig.pkColumn),
                          {"Both", "Only Ref"}, mConfig.pkExclusion.customPatterns)
        /\ ExcludedOnSide(mOut, mComp, mFilteredComp, mCompPK, CompCol(mConfig.pkColumn),
                          {"Both", "Only Comp"}, mConfig.pkExclusion.customPatterns)

\* a run over a reference row matched by the regular expression and a
\* comparison row matched by the plain pattern, both past the other filters,
\* next to rows that are kept
C12_Witness ==
    /\ mDone
    /\ ~mB1
    /\ Len(mConfig.pkExclusion.customPatterns) = 2
    /\ \E i \in 1..Len(mRef) :
          ExclusionApplies(mConfig.pkExclusion.customPatterns[1], normalizeKey(RawGet(mRef[i], mConfig.pkColumn)))
    /\ \E i \in 1..Len(mComp) :
          ExclusionApplies(mConfig.pkExclusion.customPatterns[2], normalizeKey(RawGet(mComp[i], mCompPK)))
    /\ \E k \in 1..Len(mOut) : mOut[k].exists = "Both"

\* the value without its comma thousands separators
Unseparated(v) == DropUnits(normalizeKey(v), {","})

\* the value parses as a number: a numeral is left once the separators are removed
ParsesAsNumber(v) == Unseparated(v) # <<>> /\ Number(Unseparated(v)).ok

StatedMatch(a, b) ==
    \/ toLowerCase(normalizeKey(a)) = toLowerCase(normalizeKey(b))
    \/ /\ ParsesAsNumber(a)
       /\ ParsesAsNumber(b)
       /\ NumEq(Number(Unseparated(a)), Number(Unseparated(b)))

\* C13: isValuesMatch(a, b) is true exactly when the normalized, lower-cased
\* strings of a and b are equal, or both values parse as numbers once the
\* comma thousands separators are removed and the numbers are equal; it is
\* false when the strings differ and a side does not parse as a number.
C13_MatchIffEqualTextOrNumber == valDone => (valMatch <=> StatedMatch(valA, valB))

\* C14: a run of the commit leaves the in-memory store as it was, whether it
\* completes or fails: the rows with their review cells, the annotations,
\* the mappings the columns derive from and the workbooks are unchanged;
\* only the two documents change.
C14_StoreUnchanged == [][Commits => UNCHANGED storeVars]_vars

\* a completed run has written a reviewed value that the grid still holds
C14_Witness ==
    /\ runs > 0
    /\ lastRun.completed
    /\ lastRun.updatedCount > 0
    /\ \E k \in 1..Len(rows) : CellStr(rows[k], RefReviewCol(D)) # <<>>
    /\ refFile # DocumentOf(CommitData)

\* ---------------------------------------------------------------------- C15
\* a run that comes to load the documents: both files were read
ComesToLoad == Commits /\ notice' # "error"

\* C15: when the reference or the comparison document cannot be loaded for
\* a shared formula, a run that comes to load them shows the remediation
\* message of the failing side and returns with no row processed, and no run
\* writes either document
C15_LoadFailureWritesNothing ==
    [][Commits /\ (LoadFails(refFile) \/ LoadFails(compFile))
         => /\ refFile' = refFile
            /\ compFile' = compFile
            /\ lastRun' = NoRun
            /\ ComesToLoad => notice' = IF LoadFails(refFile) THEN "refFormula" ELSE "compFormula"]_vars

\* a run was made on a pair whose comparison document alone holds the shared
\* formula, with reviews waiting in the grid, and ended on the remediation
\* message of the comparison side
C15_Witness ==
    /\ runs > 0
    /\ notice = "compFormula"
    /\ ~LoadFails(refFile)
    /\ LoadFails(compFile)
    /\ \E k \in 1..Len(rows) : \E c \in DOMAIN rows[k].cells :
          EndsWith(c, GEOMTO) /\ rows[k].cells[c] # <<>>

\* ---------------------------------------------------------------------- C16
\* the two documents as the run leaves them in memory before it saves
Mutated == applyAnalysisEngineChanges(refFile, compFile, rows, gridColumns, pkColumn, SheetName, SheetName)

\* C16: the two writes of a run are not atomic as a pair: the reference
\* document is written first, so a run whose write of the comparison document
\* fails leaves the mutated reference document on disk, the comparison
\* document as it was and returns no counts; and the comparison document is
\* never written without the reference document having been written
C16_ReferenceWriteNotRolledBack ==
    [][Commits => /\ notice' = "compLocked" => /\ refFile' = Mutated.refWb
                                                /\ compFile' = compFile
                                                /\ lastRun' = NoRun
                  /\ compFile' # compFile => refFile' = Mutated.refWb]_vars

\* the first run on a loadable pair failed on the write of the comparison
\* document: the comparison document is one of the initial ones, the reference
\* document is none of them
C16_Witness ==
    /\ runs = 1
    /\ notice = "compLocked"
    /\ ~LoadFails(refFile)
    /\ refFile \notin Documents
    /\ compFile \in Documents \cup {DocumentOf(SuffixedData)}

\* ---------------------------------------------------------------------- C17
\* the runs that have started and not yet returned
InFlight == {i \in DOMAIN flights : flights[i].pc # "done"}

\* C17: at most one commit run is in flight at any time: no second run is
\* started while an earlier one has not returned
C17_AtMostOneInFlight == Cardinality(InFlight) <= 1

\* ---------------------------------------------------------------------- C18
\* analysis is requested and the grid is entered
Requests == view = "mapping" /\ view' = "grid"

\* the inputs the matcher would be given now
CurrentInputs == MatcherInputs(mappings, pkColumn, skColumn, pkExclusion, columnExclusion)

\* C18: whenever a matching input (mappings, identity column, secondary key,
\* identity exclusion, column exclusion) differs from what the last run was
\* given and both workbooks are loaded, a request for analysis replaces the rows with the generation the
\* matcher computes from the current inputs before the grid is entered
C18_ChangedInputsRerun ==
    [][Requests /\ ranWith # CurrentInputs /\ refWorkbook.loaded /\ compWorkbook.loaded
         => rows' = compareDatasets(refWorkbook.data, compWorkbook.data, CurrentInputs, TRUE)]_vars

\* ---------------------------------------------------------------------- C19
\* the output row carries the secondary-match flag
Flagged(row) == SKMATCH \in DOMAIN row.cells

\* the full secondary-key value of a source row, not split at '::'
FullSK(row, col) == normalizeKey(getFuzzyValue(row, col))

InPairs(pairs, e) == \E k \in 1..Len(pairs) : pairs[k] = e

\* all: the pairing of the run; idOnly: the pairing of the same rows by
\* identity alone. A flagged row is a pair of a reference row and a comparison
\* row that identity matching leaves unmatched, with equal non-empty full
\* secondary keys; every other pair of the run is an identity pair
SecondaryStep(out, all, idOnly, filteredRef, filteredComp, config) ==
    /\ Len(out) = Len(all)
    /\ \A k \in 1..Len(out) :
          /\ Flagged(out[k]) <=> (all[k].exists = "Both" /\ ~InPairs(idOnly, [all[k] EXCEPT !.sk = FALSE]))
          /\ Flagged(out[k]) =>
                /\ config.skColumn # <<>>
                /\ out[k].exists = "Both"
                /\ InPairs(idOnly, [ref |-> all[k].ref, comp |-> 0, exists |-> "Only Ref", sk |-> FALSE])
                /\ InPairs(idOnly, [ref |-> 0, comp |-> all[k].comp, exists |-> "Only Comp", sk |-> FALSE])
                /\ FullSK(filteredRef[all[k].ref], config.skColumn) # <<>>
                /\ FullSK(filteredRef[all[k].ref], config.skColumn)
                     = FullSK(filteredComp[all[k].comp], FindSK(config.mappings).compColumn)
          /\ out[k].exists \in {"Only Ref", "Only Comp"} => ~Flagged(out[k])
    /\ \A k \in 1..Len(idOnly) : idOnly[k].exists = "Both" => InPairs(all, idOnly[k])
    /\ \A j, k \in 1..Len(all) :
          j # k /\ all[j].exists = "Both" /\ all[k].exists = "Both"
              => all[j].ref # all[k].ref /\ all[j].comp # all[k].comp

SecondaryStepOf(filteredRef, filteredComp) ==
    SecondaryStep(mOut, MatchPairs(filteredRef, filteredComp, mConfig),
                  MatchPairs(filteredRef, filteredComp, [mConfig EXCEPT !.skColumn = <<>>]),
                  filteredRef, filteredComp, mConfig)

\* C19: secondary-key matching runs only with a secondary key configured,
\* takes only reference and comparison rows identity matching left unmatched,
\* pairs them on equal non-empty unsplit secondary-key values, and the
\* secondary-match flag is on exactly the rows of this step: never on an
\* identity pair, an Only Ref row or an Only Comp row
C19_SecondaryFlagExact ==
    mDone => SecondaryStepOf(FilteredRef(mRef, mConfig, mB1), FilteredComp(mComp, mConfig, mB1))

\* a run whose output holds a flagged pair next to an identity pair
C19_Witness ==
    /\ mDone
    /\ mConfig.skColumn # <<>>
    /\ \E j, k \in 1..Len(mOut) :
          /\ Flagged(mOut[j])
          /\ mOut[k].exists = "Both" /\ ~Flagged(mOut[k])

\* ---------------------------------------------------------------------- C20
\* the identity column of the source row is blank and its review-suffixed
\* identity column is not
BlankWithReview(row, col) ==
    /\ normalizeKey(getFuzzyValue(row, col)) = <<>>
    /\ normalizeKey(getFuzzyValue(row, col \o GEOMTO)) # <<>>

\* an output row built from a reference (comparison) row with a blank identity
\* and the review identity v
FromRef(out, col, v) ==
    /\ out.exists \in {"Both", "Only Ref"}
    /\ Cell(out, RefCol(col)) = <<>>
    /\ Cell(out, RefReviewCol(col)) = v

FromComp(out, col, v) ==
    /\ out.exists \in {"Both", "Only Comp"}
    /\ Cell(out, CompCol(col)) = <<>>
    /\ Cell(out, CompReviewCol(col)) = v

TakesPart(out, data, col, isRef) ==
    \A i \in 1..Len(data) :
        BlankWithReview(data[i], IF isRef THEN col ELSE CompPKColumn(mConfig.mappings, col))
            => \E k \in 1..Len(out) :
                  IF isRef
                  THEN FromRef(out[k], col, normalizeKey(getFuzzyValue(data[i], col \o GEOMTO)))
                  ELSE FromComp(out[k], col,
                                normalizeKey(getFuzzyValue(data[i],
                                                           CompPKColumn(mConfig.mappings, col) \o GEOMTO)))

\* C20: a row whose identity column is blank and whose review-suffixed
\* identity column is not takes part in identity matching under its review
\* value: the output holds a Both, Only Ref or Only Comp row built from it
C20_BlankIdentityFallsBack ==
    mDone => TakesPart(mOut, mRef, mConfig.pkColumn, TRUE) /\ TakesPart(mOut, mComp, mConfig.pkColumn, FALSE)

\* ------------------------------------------------ C21: the unresolved header
\* the reviewed columns of a located side whose header the sheet does not resolve
DroppedColumns(after, target, row, isRef) ==
    IF target # NoTarget
    THEN {base \in BaseColumns : /\ CellStr(row, SideReviewCol(base, isRef)) # <<>>
                                 /\ ColumnOf(after, target, isRef, base) = 0}
    ELSE {}

\* the entries the side has added to its exceptions list
NewEntries(before, after, isRef) ==
    {after.checkRows[isRef][i] : i \in (Len(before.checkRows[isRef]) + 1)..Len(after.checkRows[isRef])}

\* an entry of the row that holds the reviewed value
HoldsEdit(entry, row, reviewValStr) ==
    /\ entry.key = row.integratedKey
    /\ \E t \in DOMAIN entry.columns : entry.columns[t] = reviewValStr

\* the document row of the target is as it was, and neither count has moved,
\* when none of the side's reviewed columns resolves
NothingWritten(before, after, target, row, isRef) ==
    LocatedCells(after, target, row, isRef) = {} =>
        /\ SheetRow(after.wb[isRef][target.sheet], target.rowNumber)
              = SheetRow(before.wb[isRef][target.sheet], target.rowNumber)
        /\ after.updatedCount = before.updatedCount
        /\ after.identicalValueCount = before.identicalValueCount

DroppedSkipped(before, after, target, row, isRef) ==
    DroppedColumns(after, target, row, isRef) # {} => NothingWritten(before, after, target, row, isRef)

DroppedRecorded(before, after, target, row, isRef) ==
    \A base \in DroppedColumns(after, target, row, isRef) :
        \E entry \in NewEntries(before, after, isRef) :
            HoldsEdit(entry, row, CellStr(row, SideReviewCol(base, isRef)))

DroppedEdits(ctx, check(_, _, _, _, _)) ==
    LoopRuns(ctx) =>
        \A k \in 1..Len(rows) : \A isRef \in BOOLEAN :
            check(BeforeSide(k, isRef, ctx), processSideUpdates(BeforeSide(k, isRef, ctx), rows[k], isRef, ctx),
                  TargetOf(BeforeSide(k, isRef, ctx), rows[k], isRef, ctx), rows[k], isRef)

\* the part of C21 the code keeps: a reviewed column whose header does not
\* resolve in the located sheet leaves the document row and both counts alone
C21_DroppedEditNotWritten == [][ProcessesRows => DroppedEdits(runContext, DroppedSkipped)]_vars

\* C21: when a row is located in a document and the header of a reviewed
\* column resolves in that sheet by no exact, normalized or substring match,
\* the cell is not written, it is counted neither as updated nor as
\* identical, and the side's exceptions list receives an entry of the row that
\* holds the dropped reviewed value.
C21_DroppedEditRecorded ==
    [][ProcessesRows => DroppedEdits(runContext, DroppedSkipped) /\ DroppedEdits(runContext, DroppedRecorded)]_vars

\* ------------------------------------------- C22: the sides are independent
\* the document, the exceptions list and the two cell counts of a side agree
SameSide(a, b, isRef) ==
    /\ a.wb[isRef] = b.wb[isRef]
    /\ a.checkRows[isRef] = b.checkRows[isRef]
    /\ a.updatedCount = b.updatedCount
    /\ a.identicalValueCount = b.identicalValueCount

\* s0: the accumulators as the loop reaches the reference side of the row,
\* s1: as it reaches the comparison side, s2: as it leaves the row
RowSidesIndependent(s0, s1, s2, row, ctx) ==
    /\ CascadeFails(s0, row, TRUE, ctx) => SameSide(s2, processSideUpdates(s0, row, FALSE, ctx), FALSE)
    /\ CascadeFails(s1, row, FALSE, ctx) => SameSide(s2, s1, TRUE)

SidesIndependent(ctx) ==
    LoopRuns(ctx) =>
        /\ \A k \in 1..Len(rows) :
              RowSidesIndependent(BeforeSide(k, TRUE, ctx), BeforeSide(k, FALSE, ctx),
                                  ProcessRows(StartOfRun(refFile, compFile), rows, k, ctx), rows[k], ctx)
        /\ Ran(refFile, compFile, rows, gridColumns, ctx).completed

\* C22: when the cascade fails for a row in the reference document, the
\* comparison document, the comparison side's exceptions and the two cell
\* counts come out as the comparison side alone produces them; when it fails
\* in the comparison document, what the reference side produced stays; and
\* the run completes.
C22_SidesIndependent == [][Commits => SidesIndependent(runContext)]_vars

\* a run has missed row '0-2' in the reference document and has overwritten
\* its cell in the comparison document
C22_Witness ==
    /\ lastRun.completed /\ lastRun.noTargetRowCount > 0
    /\ Len(refFile[1].cells) = 2
    /\ Len(compFile[1].cells) = 3
    /\ compFile[1].cells[3][3].mark = "changed"

\* -------------------------------------------------- C23: the 'add' marker
\* the accumulators as the loop reaches the add of side isRef of grid row k
BeforeAdd(k, isRef, ctx) ==
    IF isRef
    THEN HandleDelete(HandleDelete(ProcessRows(StartOfRun(refFile, compFile), rows, k - 1, ctx), rows[k], TRUE, ctx),
                      rows[k], FALSE, ctx)
    ELSE HandleAdd(HandleDelete(HandleDelete(ProcessRows(StartOfRun(refFile, compFile), rows, k - 1, ctx),
                                             rows[k], TRUE, ctx),
                                rows[k], FALSE, ctx),
                   rows[k], TRUE, ctx)

\* the rows a worksheet of the given name holds, none when the document has no such sheet
RowsOf(wb, name) == IF SheetIndex(wb, name) = 0 THEN <<>> ELSE wb[SheetIndex(wb, name)].cells

\* the added-items sheet gains the row's values as its last row, after the
\* title row the sheet is given when it is empty
OneRowAppended(old, new, row, sideColumns, isRef) ==
    /\ Len(new) = Len(old) + (IF old = <<>> THEN 2 ELSE 1)
    /\ SubSeq(new, 1, Len(old)) = old
    /\ [c \in 1..Len(new[Len(new)]) |-> new[Len(new)][c].value] = AddedValues(row, sideColumns, isRef)

\* every worksheet the document held, the added-items sheet aside, is as it was
ExistingRowsKept(old, new) ==
    /\ Len(new) >= Len(old)
    /\ \A s \in 1..Len(old) : old[s].name # AddedSheetName => new[s] = old[s]
    /\ \A s \in 1..Len(new) : s > Len(old) => new[s].name = AddedSheetName

AddAppends(a, b, row, isRef, ctx) ==
    /\ b.addedCount = a.addedCount + 1
    /\ OneRowAppended(RowsOf(a.wb[isRef], AddedSheetName), RowsOf(b.wb[isRef], AddedSheetName), row,
                      SideColumns(ctx.columns, isRef), isRef)
    /\ ExistingRowsKept(a.wb[isRef], b.wb[isRef])
    /\ b.wb[~isRef] = a.wb[~isRef]

AddOnlyAppends(ctx) ==
    LoopRuns(ctx) =>
        \A k \in 1..Len(rows) : \A isRef \in BOOLEAN :
            SideStatus(rows[k], ctx.pkColumn, isRef) = "add" =>
                /\ AddAppends(BeforeAdd(k, isRef, ctx), HandleAdd(BeforeAdd(k, isRef, ctx), rows[k], isRef, ctx),
                              rows[k], isRef, ctx)
                /\ processSideUpdates(BeforeSide(k, isRef, ctx), rows[k], isRef, ctx) = BeforeSide(k, isRef, ctx)

AloneInGroup(i) ==
    \A j \in 1..Len(rows) :
        TargetKey(rows[j], refReviewCol, compReviewCol) = TargetKey(rows[i], refReviewCol, compReviewCol) => j = i

NoIdentityReview(row) ==
    CellStr(row, refReviewCol) = <<>> /\ CellStr(row, compReviewCol) = <<>>

\* the store holds the row under its target key, every other field as it was
OnlyRekeyed(row, key, after) ==
    /\ \E k \in 1..Len(after) : after[k] = [row EXCEPT !.integratedKey = key]
    /\ \A k \in 1..Len(after) : after[k].integratedKey = key => after[k] = [row EXCEPT !.integratedKey = key]

LoneRowKept(i) ==
    AloneInGroup(i) =>
        /\ OnlyRekeyed(rows[i], TargetKey(rows[i], refReviewCol, compReviewCol), rows')
        /\ (/\ NoIdentityReview(rows[i])
            /\ TargetKey(rows[i], refReviewCol, compReviewCol) = rows[i].integratedKey)
              => \E k \in 1..Len(rows') : rows'[k] = rows[i]

\* C24: in applyReviewCompensation a row that is alone in its target-key
\* group is in the store afterwards with its status, its original values, its
\* review values and its diff flags as they were, only integratedKey set to
\* the target key; and such a row with no identity review value whose target
\* key is its current key is in the store afterwards unchanged.
C24_LoneRowKept ==
    [][Compensates => \A i \in 1..Len(rows) : LoneRowKept(i)]_vars

\* a call has re-keyed a row that was alone in its group: the row holds an
\* identity review value, no merge took place
C24_Witness ==
    /\ justApplied /\ applied = 0
    /\ \E i \in 1..Len(rows) :
          /\ CellStr(rows[i], refReviewCol) # <<>>
          /\ rows[i].integratedKey = SplitFirst(CellStr(rows[i], refReviewCol))
          /\ rows[i].integratedKey # rows[i].standardPK
          /\ rows[i].exists # "Both(M)"

\* --------------------------------------- C25: the excluded target column
\* the target columns the column-exclusion rules remove from the comparable set
ExcludedTargets ==
    {mappings[k].refColumn : k \in {i \in 1..Len(mappings) : /\ mappings[i].isTarget
                                                             /\ ~KeepsMapping(mappings[i], columnExclusion)}}

\* the summary holds an entry of the column with the status 'excluded by rule'
ReportedExcluded(summary, columnName) ==
    \E k \in 1..Len(summary) : summary[k].columnName = columnName /\ summary[k].status = "excluded by rule"

\* C25: while the grid is shown, every target column the column-exclusion
\* rules remove is an entry with the status 'excluded by rule' of the
\* summary runComparison computes from the rows and of the summary
\* recalculateSummary has stored.
C25_ExcludedTargetReported ==
    view = "grid" =>
        \A columnName \in ExcludedTargets :
            /\ ReportedExcluded(RunSummary(rows, mappings, columnExclusion), columnName)
            /\ ReportedExcluded(detailedSummary, columnName)

\* ------------------------------------------ C26: the request that is invalid
\* a step of handleRunAnalysis that calls runComparison: the handler has
\* either entered the grid or set the error, on a first run or a changed snapshot
AsksForRun ==
    /\ view = "mapping"
    /\ view' = "grid" \/ error' # error
    /\ \/ lastRunConfig = NoSnapshot
       \/ lastRunConfig # generateConfigSnapshot(mappings, pkColumn, skColumn, columnExclusion)

MissingWorkbook == ~refWorkbook.loaded \/ ~compWorkbook.loaded

\* the error is shown and the rows, the summary and the annotations stay
Rejected ==
    /\ error' # ""
    /\ rows' = rows
    /\ detailedSummary' = detailedSummary
    /\ memos' = memos
    /\ view' = view

\* the part of C26 the code keeps: a request with a missing workbook is rejected
C26_MissingWorkbookRejected == [][AsksForRun /\ MissingWorkbook => Rejected]_vars

\* C26: a comparison requested with no identity column, with an empty
\* mapping list or with a missing workbook is rejected before matching: the
\* error is set, and the rows, the summary and the annotations are as before.
C26_InvalidRequestRejected ==
    [][AsksForRun /\ (pkColumn = <<>> \/ mappings = <<>> \/ MissingWorkbook) => Rejected]_vars

\* ----------------------------------------- C27: the delete that finds no row
\* the side carries a 'delete' marker and the row map holds no row for its identity
DeleteUnlocated(row, isRef, ctx) ==
    /\ SideStatus(row, ctx.pkColumn, isRef) = "delete"
    /\ DeleteTarget(ctx.rowMap[isRef], LookupPK(row, ctx.pkColumn, isRef)) = NoTarget

\* the accumulators as the loop reaches the delete of side isRef of grid row k
BeforeDelete(k, isRef, ctx) ==
    IF isRef THEN ProcessRows(StartOfRun(refFile, compFile), rows, k - 1, ctx)
    ELSE HandleDelete(ProcessRows(StartOfRun(refFile, compFile), rows, k - 1, ctx), rows[k], TRUE, ctx)

\* the exceptions list of the side holds an entry of the row that the
\* exceptions sheet displays: generateCheckSheet keeps the entries with a
\* non-blank 'Mapping Failure Logic'
InExceptions(acc, row, isRef) ==
    \E i \in 1..Len(acc.checkRows[isRef]) :
        /\ acc.checkRows[isRef][i].key = row.integratedKey
        /\ Trim(acc.checkRows[isRef][i].logic) # <<>>

NotDeleted(before, row, isRef, ctx) == HandleDelete(before, row, isRef, ctx).deletedCount = before.deletedCount

CascadeFailuresReported(ctx) ==
    LoopRuns(ctx) =>
        /\ \A k \in 1..Len(rows) : \A isRef \in BOOLEAN :
              CascadeFails(BeforeSide(k, isRef, ctx), rows[k], isRef, ctx)
                  => InExceptions(ProcessRows(StartOfRun(refFile, compFile), rows, Len(rows), ctx), rows[k], isRef)
        /\ Ran(refFile, compFile, rows, gridColumns, ctx).completed

UnlocatedDeletesReported(ctx) ==
    LoopRuns(ctx) =>
        \A k \in 1..Len(rows) : \A isRef \in BOOLEAN :
            DeleteUnlocated(rows[k], isRef, ctx)
                => /\ NotDeleted(BeforeDelete(k, isRef, ctx), rows[k], isRef, ctx)
                   /\ InExceptions(ProcessRows(StartOfRun(refFile, compFile), rows, Len(rows), ctx), rows[k], isRef)

\* the part of C27 the code keeps: a side whose cascade fails is in the
\* side's exceptions and the run completes
C27_CascadeFailureReported == [][Commits => CascadeFailuresReported(runContext)]_vars

\* C27: every per-row resolution failure of a run leaves the run to complete
\* and is an entry of that side's exceptions sheet; a row with a 'delete'
\* marker whose document row is not located is not counted as deleted and is
\* an entry of the exceptions sheet as well.
C27_FailuresReported ==
    [][Commits => CascadeFailuresReported(runContext) /\ UnlocatedDeletesReported(runContext)]_vars

\* ------------------------------------- C28: the diff flags after the matching
\* the columns a row of the store can hold
StoreColumns == {T, S, D, NOTE}

\* the row carries C_diff exactly when it is a Both row whose effective
\* values (review value if present, else original) do not match
DiffExact(row) ==
    \A c \in StoreColumns :
        HasDiff(row, c) <=>
            /\ row.exists = "Both"
            /\ ~isValuesMatch(ReviewFirst(row, RefCol(c), RefReviewCol(c)),
                              ReviewFirst(row, CompCol(c), CompReviewCol(c)))

AllDiffExact(stRows) == \A k \in 1..Len(stRows) : DiffExact(stRows[k])

\* a step of setCellValue, setCellValuesBatch or applyReviewCompensation
EditsOrCompensates == ops' = ops + 1 /\ Len(rows') <= Len(rows) /\ rows' # rows

\* the rows are those of a runComparison result and what the reviewer's
\* edits and compensations have made of them: none was inserted by hand
FromRunComparison == \A k \in 1..Len(rows) : ~StartsWith(rows[k].integratedKey, CHECK)

\* C28: setCellValue, setCellValuesBatch and applyReviewCompensation keep
\* the C_diff invariant: when every row carries C_diff exactly when its status
\* is Both and its effective reference and comparison values for C do not
\* match, the same is true after the step; a Both(M) row carries no C_diff.
C28_DiffKeptByEdits ==
    [][EditsOrCompensates /\ FromRunComparison /\ AllDiffExact(rows) => AllDiffExact(rows')]_vars

\* ------------------------------------- C29: one row for every target key
\* the target keys of the rows of the store
StoreTargetKeys == {TargetKey(rows[i], refReviewCol, compReviewCol) : i \in 1..Len(rows)}

KeysDistinct(stRows) ==
    \A i, j \in 1..Len(stRows) : stRows[i].integratedKey = stRows[j].integratedKey => i = j

OneRowPerTargetKey ==
    /\ KeysDistinct(rows')
    /\ Len(rows') = Cardinality(StoreTargetKeys)
    /\ {rows'[k].integratedKey : k \in 1..Len(rows')} = StoreTargetKeys
    /\ Len(rows') <= Len(rows)
    /\ applied' = Len(rows) - Len(rows')

\* C29: after a call of applyReviewCompensation that finds an identity
\* review value, the integratedKeys of the rows are pairwise distinct, there
\* is one row for every distinct target key of the rows before the call and
\* no more rows than before, and the returned merge count is the number of
\* rows before minus the number of rows after.
C29_OneRowPerTargetKey == [][Compensates => OneRowPerTargetKey]_vars

\* a call has merged rows: fewer rows than before, one of them merged
C29_Witness ==
    /\ justApplied /\ applied > 0
    /\ \E k \in 1..Len(rows) : rows[k].exists = "Both(M)"
    /\ KeysDistinct(rows)

\* ------------------------------- C30: the key of a manually inserted row
\* a step of addChecklistItem: one more row than before
Inserts == ops' = ops + 1 /\ Len(rows') = Len(rows) + 1

\* a step of deleteRow: fewer rows than before, and not by a compensation
Deletes == ops' = ops + 1 /\ Len(rows') < Len(rows) /\ ~justApplied'

\* the position addChecklistItem put the new row at
InsertedAt(p) ==
    /\ p \in 1..Len(rows')
    /\ SubSeq(rows', 1, p - 1) \o SubSeq(rows', p + 1, Len(rows')) = rows
    /\ StartsWith(rows'[p].integratedKey, CHECK)

\* the new row's key is held by no row that was in the store, and deleteRow
\* on that key gives back the rows as they were
InsertedKeyFresh ==
    \A p \in 1..Len(rows') :
        InsertedAt(p) =>
            /\ \A k \in 1..Len(rows) : rows[k].integratedKey # rows'[p].integratedKey
            /\ deleteRow(rows', memos', rows'[p].integratedKey).rows = rows

ExactlyOneRemoved == Len(rows') = Len(rows) - 1

\* C30: every row addChecklistItem inserts gets an integratedKey that no row
\* already in the store holds, manual rows inserted at the same clock value
\* included, and a deleteRow on the key of a manual row removes exactly one
\* row.
C30_ManualKeyFresh ==
    [][(Inserts => InsertedKeyFresh) /\ (Deletes => ExactlyOneRemoved)]_vars

====
